---- MODULE Spec2Model ----
(***************************************************************************)
(* Model of the rotkehlchen HTTP API layer:                                *)
(*   api/server.py      - route table registration (setup_urls), the      *)
(*                        framework error handlers and the APIServer      *)
(*                        life cycle (start / run / stop);                *)
(*   api/v1/encoding.py - request schemas: field deserialization, whole   *)
(*                        schema validation and post-load transformation. *)
(*                                                                         *)
(* Three specifications share the variables:                              *)
(*   SpecSetup  - APIServer.__init__ over every bounded route table;      *)
(*   Spec       - the handling of requests by a constructed server;       *)
(*   SpecServer - start(), run(), stop() and the serving greenlet.        *)
(***************************************************************************)
EXTENDS Integers, Sequences, FiniteSets, TLC

VARIABLES
    \* ---- APIServer.__init__ / setup_urls ----
    urls,               \* the route table given to setup_urls
    rest_api,           \* the RestAPI object given to APIServer.__init__
    init_pc,            \* position inside APIServer.__init__
    url_idx,            \* index of the next url_tuple of the for loop (1-based)
    flask_api_context,  \* resources recorded by Api.add_resource, in call order
    self_rest_api,      \* APIServer.rest_api
    view_functions,     \* endpoint names bound on the Flask app
    error_handlers,     \* error handlers installed on the Flask app
    init_exc,           \* exception that left APIServer.__init__, or NoExc
    \* ---- one request through the webargs / flask pipeline ----
    req,                \* the request being handled
    response,           \* the response sent for it, or NoResponse
    handler_calls,      \* times a resource handler body ran for this request
    ens_calls,          \* names given to ethereum.ens_lookup for this request
    log_records,        \* records written by log.critical since start
    served,             \* requests answered since start
    listening,          \* the WSGI server is accepting requests
    \* ---- APIServer life cycle ----
    wsgiserver,         \* APIServer.wsgiserver: 0 is None, else a server id
    greenlet,           \* APIServer.greenlet: 0 is None, else a greenlet id
    servers,            \* WSGIServer objects created by run()
    greenlets,          \* greenlets spawned by start()
    stop_pc,            \* position inside a running stop() call
    stop_local,         \* what the running stop() call has done so far
    backend_stops,      \* times rest_api.stop() was called
    calls,              \* start()/run()/stop() calls made so far
    \* ---- one call of a field, a validator or the url map ----
    field_call,         \* the function applied and the value given to it
    field_result,       \* what the call returned or raised, or NoResult
    \* ---- requests validated side by side, and the wall clock ----
    reqs,               \* the requests being validated, by request id
    clock               \* what ts_now() answers

vars == <<urls, rest_api, init_pc, url_idx, flask_api_context, self_rest_api,
          view_functions, error_handlers, init_exc,
          req, response, handler_calls, ens_calls, log_records, served, listening,
          wsgiserver, greenlet, servers, greenlets, stop_pc, stop_local,
          backend_stops, calls, field_call, field_result, reqs, clock>>

setupVars == <<urls, rest_api, init_pc, url_idx, flask_api_context, self_rest_api,
               view_functions, error_handlers, init_exc>>
reqVars == <<req, response, handler_calls, ens_calls, log_records, served, listening>>
serverVars == <<wsgiserver, greenlet, servers, greenlets, stop_pc, stop_local,
                backend_stops, calls>>
fieldVars == <<field_call, field_result, reqs, clock>>

None == "None"
NoExc == [type |-> "none"]

(***************************************************************************)
(* Bounds of the model.                                                    *)
(***************************************************************************)
MaxUrls == 2        \* longest route table explored
MaxAccounts == 2    \* longest 'accounts' list of a request
MaxRequests == 2    \* requests handled one after the other
MaxCalls == 4       \* start()/run()/stop() calls in one behaviour

(***************************************************************************)
(* Names. A Python identifier is a sequence of characters; str.lower()     *)
(* maps each upper-case character to its lower-case one.                   *)
(***************************************************************************)
UpperCase ==
    <<"A", "B", "C", "D", "E", "F", "G", "H", "I", "J", "K", "L", "M",
      "N", "O", "P", "Q", "R", "S", "T", "U", "V", "W", "X", "Y", "Z">>
LowerCase ==
    <<"a", "b", "c", "d", "e", "f", "g", "h", "i", "j", "k", "l", "m",
      "n", "o", "p", "q", "r", "s", "t", "u", "v", "w", "x", "y", "z">>

\* str.lower() on one character
LowerChar(c) ==
    IF \E k \in 1..Len(UpperCase) : UpperCase[k] = c
    THEN LowerCase[CHOOSE k \in 1..Len(UpperCase) : UpperCase[k] = c]
    ELSE c

StrLower(s) == [k \in 1..Len(s) |-> LowerChar(s[k])]

\* resource classes, by __name__ ; two of them differ in case only
ResourceClasses == { <<"P", "r">>, <<"p", "R">> }
Routes == { "/a", "/b" }
ExplicitEndpoints == { <<"p", "r">>, <<"X">> }
RestApiObjects == { "rest_api_1", "rest_api_2" }

\* the url tuples a route table may hold: 2-tuples, 3-tuples, and malformed
\* tuples of 1 and of 4 elements
UrlTuples ==
    { <<r, c>> : r \in Routes, c \in ResourceClasses }
    \cup { <<r, c, e>> : r \in Routes, c \in ResourceClasses, e \in ExplicitEndpoints }
    \cup { << "/a" >> }
    \cup { << "/a", <<"P", "r">>, <<"X">>, "extra" >> }

RECURSIVE SeqsUpTo(_, _)
SeqsUpTo(S, n) ==
    IF n = 0 THEN { <<>> }
    ELSE LET shorter == SeqsUpTo(S, n - 1)
         IN  shorter \cup { Append(s, x) : s \in { t \in shorter : Len(t) = n - 1 }, x \in S }

(***************************************************************************)
(* The route table (server.py 104-199).  A rule is kept as the segments    *)
(* between its slashes: a literal, or a converter <string:x> or <int:x>;   *)
(* slash tells whether the rule ends in '/'.                               *)
(***************************************************************************)
URLS_V1 ==
    <<
      [segs |-> << [kind |-> "lit", text |-> "users"] >>,
       slash |-> FALSE, rule |-> "/users",
       resource |-> <<"U", "s", "e", "r", "s", "R", "e", "s", "o", "u", "r", "c", "e">>,
       endpoint |-> <<>>],
      [segs |-> << [kind |-> "lit", text |-> "watchers"] >>,
       slash |-> FALSE, rule |-> "/watchers",
       resource |-> <<"W", "a", "t", "c", "h", "e", "r", "s", "R", "e", "s", "o", "u", "r", "c", "e">>,
       endpoint |-> <<>>],
      [segs |-> << [kind |-> "lit", text |-> "users"], [kind |-> "string", text |-> "name"] >>,
       slash |-> FALSE, rule |-> "/users/<string:name>",
       resource |-> <<"U", "s", "e", "r", "s", "B", "y", "N", "a", "m", "e", "R", "e", "s", "o", "u", "r", "c", "e">>,
       endpoint |-> <<>>],
      [segs |-> << [kind |-> "lit", text |-> "users"], [kind |-> "string", text |-> "name"], [kind |-> "lit", text |-> "password"] >>,
       slash |-> FALSE, rule |-> "/users/<string:name>/password",
       resource |-> <<"U", "s", "e", "r", "P", "a", "s", "s", "w", "o", "r", "d", "C", "h", "a", "n", "g", "e", "R", "e", "s", "o", "u", "r", "c", "e">>,
       endpoint |-> <<>>],
      [segs |-> << [kind |-> "lit", text |-> "settings"] >>,
       slash |-> FALSE, rule |-> "/settings",
       resource |-> <<"S", "e", "t", "t", "i", "n", "g", "s", "R", "e", "s", "o", "u", "r", "c", "e">>,
       endpoint |-> <<>>],
      [segs |-> << [kind |-> "lit", text |-> "tasks"] >>,
       slash |-> TRUE, rule |-> "/tasks/",
       resource |-> <<"A", "s", "y", "n", "c", "T", "a", "s", "k", "s", "R", "e", "s", "o", "u", "r", "c", "e">>,
       endpoint |-> <<>>],
      [segs |-> << [kind |-> "lit", text |-> "tasks"], [kind |-> "int", text |-> "task_id"] >>,
       slash |-> FALSE, rule |-> "/tasks/<int:task_id>",
       resource |-> <<"A", "s", "y", "n", "c", "T", "a", "s", "k", "s", "R", "e", "s", "o", "u", "r", "c", "e">>,
       endpoint |-> <<"s", "p", "e", "c", "i", "f", "i", "c", "_", "a", "s", "y", "n", "c", "_", "t", "a", "s", "k", "s", "_", "r", "e", "s", "o", "u", "r", "c", "e">>],
      [segs |-> << [kind |-> "lit", text |-> "exchange_rates"] >>,
       slash |-> FALSE, rule |-> "/exchange_rates",
       resource |-> <<"E", "x", "c", "h", "a", "n", "g", "e", "R", "a", "t", "e", "s", "R", "e", "s", "o", "u", "r", "c", "e">>,
       endpoint |-> <<>>],
      [segs |-> << [kind |-> "lit", text |-> "external_services"] >>,
       slash |-> TRUE, rule |-> "/external_services/",
       resource |-> <<"E", "x", "t", "e", "r", "n", "a", "l", "S", "e", "r", "v", "i", "c", "e", "s", "R", "e", "s", "o", "u", "r", "c", "e">>,
       endpoint |-> <<>>],
      [segs |-> << [kind |-> "lit", text |-> "oracles"] >>,
       slash |-> FALSE, rule |-> "/oracles",
       resource |-> <<"O", "r", "a", "c", "l", "e", "s", "R", "e", "s", "o", "u", "r", "c", "e">>,
       endpoint |-> <<>>],
      [segs |-> << [kind |-> "lit", text |-> "oracles"], [kind |-> "string", text |-> "oracle"], [kind |-> "lit", text |-> "cache"] >>,
       slash |-> FALSE, rule |-> "/oracles/<string:oracle>/cache",
       resource |-> <<"N", "a", "m", "e", "d", "O", "r", "a", "c", "l", "e", "C", "a", "c", "h", "e", "R", "e", "s", "o", "u", "r", "c", "e">>,
       endpoint |-> <<>>],
      [segs |-> << [kind |-> "lit", text |-> "exchanges"] >>,
       slash |-> FALSE, rule |-> "/exchanges",
       resource |-> <<"E", "x", "c", "h", "a", "n", "g", "e", "s", "R", "e", "s", "o", "u", "r", "c", "e">>,
       endpoint |-> <<>>],
      [segs |-> << [kind |-> "lit", text |-> "exchanges"], [kind |-> "lit", text |-> "balances"] >>,
       slash |-> FALSE, rule |-> "/exchanges/balances",
       resource |-> <<"E", "x", "c", "h", "a", "n", "g", "e", "B", "a", "l", "a", "n", "c", "e", "s", "R", "e", "s", "o", "u", "r", "c", "e">>,
       endpoint |-> <<>>],
      [segs |-> << [kind |-> "lit", text |-> "exchanges"], [kind |-> "lit", text |-> "balances"], [kind |-> "string", text |-> "name"] >>,
       slash |-> FALSE, rule |-> "/exchanges/balances/<string:name>",
       resource |-> <<"E", "x", "c", "h", "a", "n", "g", "e", "B", "a", "l", "a", "n", "c", "e", "s", "R", "e", "s", "o", "u", "r", "c", "e">>,
       endpoint |-> <<"n", "a", "m", "e", "d", "_", "e", "x", "c", "h", "a", "n", "g", "e", "s", "_", "b", "a", "l", "a", "n", "c", "e", "s", "_", "r", "e", "s", "o", "u", "r", "c", "e">>],
      [segs |-> << [kind |-> "lit", text |-> "assets"], [kind |-> "string", text |-> "asset"], [kind |-> "lit", text |-> "icon"] >>,
       slash |-> FALSE, rule |-> "/assets/<string:asset>/icon",
       resource |-> <<"A", "s", "s", "e", "t", "I", "c", "o", "n", "s", "R", "e", "s", "o", "u", "r", "c", "e">>,
       endpoint |-> <<>>],
      [segs |-> << [kind |-> "lit", text |-> "assets"], [kind |-> "string", text |-> "asset"], [kind |-> "lit", text |-> "icon"], [kind |-> "string", text |-> "size"] >>,
       slash |-> FALSE, rule |-> "/assets/<string:asset>/icon/<string:size>",
       resource |-> <<"A", "s", "s", "e", "t", "I", "c", "o", "n", "s", "R", "e", "s", "o", "u", "r", "c", "e">>,
       endpoint |-> <<"s", "p", "e", "c", "i", "f", "i", "c", "_", "s", "i", "z", "e", "_", "a", "s", "s", "e", "t", "_", "i", "c", "o", "n", "s", "_", "r", "e", "s", "o", "u", "r", "c", "e">>],
      [segs |-> << [kind |-> "lit", text |-> "trades"] >>,
       slash |-> FALSE, rule |-> "/trades",
       resource |-> <<"T", "r", "a", "d", "e", "s", "R", "e", "s", "o", "u", "r", "c", "e">>,
       endpoint |-> <<>>],
      [segs |-> << [kind |-> "lit", text |-> "ledgeractions"] >>,
       slash |-> FALSE, rule |-> "/ledgeractions",
       resource |-> <<"L", "e", "d", "g", "e", "r", "A", "c", "t", "i", "o", "n", "s", "R", "e", "s", "o", "u", "r", "c", "e">>,
       endpoint |-> <<>>],
      [segs |-> << [kind |-> "lit", text |-> "asset_movements"] >>,
       slash |-> FALSE, rule |-> "/asset_movements",
       resource |-> <<"A", "s", "s", "e", "t", "M", "o", "v", "e", "m", "e", "n", "t", "s", "R", "e", "s", "o", "u", "r", "c", "e">>,
       endpoint |-> <<>>],
      [segs |-> << [kind |-> "lit", text |-> "tags"] >>,
       slash |-> FALSE, rule |-> "/tags",
       resource |-> <<"T", "a", "g", "s", "R", "e", "s", "o", "u", "r", "c", "e">>,
       endpoint |-> <<>>],
      [segs |-> << [kind |-> "lit", text |-> "exchanges"], [kind |-> "lit", text |-> "data"] >>,
       slash |-> TRUE, rule |-> "/exchanges/data/",
       resource |-> <<"E", "x", "c", "h", "a", "n", "g", "e", "s", "D", "a", "t", "a", "R", "e", "s", "o", "u", "r", "c", "e">>,
       endpoint |-> <<>>],
      [segs |-> << [kind |-> "lit", text |-> "exchanges"], [kind |-> "lit", text |-> "data"], [kind |-> "string", text |-> "name"] >>,
       slash |-> FALSE, rule |-> "/exchanges/data/<string:name>",
       resource |-> <<"E", "x", "c", "h", "a", "n", "g", "e", "s", "D", "a", "t", "a", "R", "e", "s", "o", "u", "r", "c", "e">>,
       endpoint |-> <<"n", "a", "m", "e", "d", "_", "e", "x", "c", "h", "a", "n", "g", "e", "s", "_", "d", "a", "t", "a", "_", "r", "e", "s", "o", "u", "r", "c", "e">>],
      [segs |-> << [kind |-> "lit", text |-> "balances"], [kind |-> "lit", text |-> "blockchains"] >>,
       slash |-> FALSE, rule |-> "/balances/blockchains",
       resource |-> <<"B", "l", "o", "c", "k", "c", "h", "a", "i", "n", "B", "a", "l", "a", "n", "c", "e", "s", "R", "e", "s", "o", "u", "r", "c", "e">>,
       endpoint |-> <<>>],
      [segs |-> << [kind |-> "lit", text |-> "balances"], [kind |-> "lit", text |-> "blockchains"], [kind |-> "string", text |-> "blockchain"] >>,
       slash |-> FALSE, rule |-> "/balances/blockchains/<string:blockchain>",
       resource |-> <<"B", "l", "o", "c", "k", "c", "h", "a", "i", "n", "B", "a", "l", "a", "n", "c", "e", "s", "R", "e", "s", "o", "u", "r", "c", "e">>,
       endpoint |-> <<"n", "a", "m", "e", "d", "_", "b", "l", "o", "c", "k", "c", "h", "a", "i", "n", "_", "b", "a", "l", "a", "n", "c", "e", "s", "_", "r", "e", "s", "o", "u", "r", "c", "e">>],
      [segs |-> << [kind |-> "lit", text |-> "balances"] >>,
       slash |-> TRUE, rule |-> "/balances/",
       resource |-> <<"A", "l", "l", "B", "a", "l", "a", "n", "c", "e", "s", "R", "e", "s", "o", "u", "r", "c", "e">>,
       endpoint |-> <<>>],
      [segs |-> << [kind |-> "lit", text |-> "balances"], [kind |-> "lit", text |-> "manual"] >>,
       slash |-> FALSE, rule |-> "/balances/manual",
       resource |-> <<"M", "a", "n", "u", "a", "l", "l", "y", "T", "r", "a", "c", "k", "e", "d", "B", "a", "l", "a", "n", "c", "e", "s", "R", "e", "s", "o", "u", "r", "c", "e">>,
       endpoint |-> <<>>],
      [segs |-> << [kind |-> "lit", text |-> "statistics"], [kind |-> "lit", text |-> "netvalue"] >>,
       slash |-> FALSE, rule |-> "/statistics/netvalue",
       resource |-> <<"S", "t", "a", "t", "i", "s", "t", "i", "c", "s", "N", "e", "t", "v", "a", "l", "u", "e", "R", "e", "s", "o", "u", "r", "c", "e">>,
       endpoint |-> <<>>],
      [segs |-> << [kind |-> "lit", text |-> "statistics"], [kind |-> "lit", text |-> "balance"], [kind |-> "string", text |-> "asset"] >>,
       slash |-> FALSE, rule |-> "/statistics/balance/<string:asset>",
       resource |-> <<"S", "t", "a", "t", "i", "s", "t", "i", "c", "s", "A", "s", "s", "e", "t", "B", "a", "l", "a", "n", "c", "e", "R", "e", "s", "o", "u", "r", "c", "e">>,
       endpoint |-> <<>>],
      [segs |-> << [kind |-> "lit", text |-> "statistics"], [kind |-> "lit", text |-> "value_distribution"] >>,
       slash |-> FALSE, rule |-> "/statistics/value_distribution",
       resource |-> <<"S", "t", "a", "t", "i", "s", "t", "i", "c", "s", "V", "a", "l", "u", "e", "D", "i", "s", "t", "r", "i", "b", "u", "t", "i", "o", "n", "R", "e", "s", "o", "u", "r", "c", "e">>,
       endpoint |-> <<>>],
      [segs |-> << [kind |-> "lit", text |-> "statistics"], [kind |-> "lit", text |-> "renderer"] >>,
       slash |-> FALSE, rule |-> "/statistics/renderer",
       resource |-> <<"S", "t", "a", "t", "i", "s", "t", "i", "c", "s", "R", "e", "n", "d", "e", "r", "e", "r", "R", "e", "s", "o", "u", "r", "c", "e">>,
       endpoint |-> <<>>],
      [segs |-> << [kind |-> "lit", text |-> "messages"] >>,
       slash |-> TRUE, rule |-> "/messages/",
       resource |-> <<"M", "e", "s", "s", "a", "g", "e", "s", "R", "e", "s", "o", "u", "r", "c", "e">>,
       endpoint |-> <<>>],
      [segs |-> << [kind |-> "lit", text |-> "periodic"] >>,
       slash |-> TRUE, rule |-> "/periodic/",
       resource |-> <<"P", "e", "r", "i", "o", "d", "i", "c", "D", "a", "t", "a", "R", "e", "s", "o", "u", "r", "c", "e">>,
       endpoint |-> <<>>],
      [segs |-> << [kind |-> "lit", text |-> "history"] >>,
       slash |-> TRUE, rule |-> "/history/",
       resource |-> <<"H", "i", "s", "t", "o", "r", "y", "P", "r", "o", "c", "e", "s", "s", "i", "n", "g", "R", "e", "s", "o", "u", "r", "c", "e">>,
       endpoint |-> <<>>],
      [segs |-> << [kind |-> "lit", text |-> "history"], [kind |-> "lit", text |-> "status"] >>,
       slash |-> FALSE, rule |-> "/history/status",
       resource |-> <<"H", "i", "s", "t", "o", "r", "y", "S", "t", "a", "t", "u", "s", "R", "e", "s", "o", "u", "r", "c", "e">>,
       endpoint |-> <<>>],
      [segs |-> << [kind |-> "lit", text |-> "history"], [kind |-> "lit", text |-> "export"] >>,
       slash |-> TRUE, rule |-> "/history/export/",
       resource |-> <<"H", "i", "s", "t", "o", "r", "y", "E", "x", "p", "o", "r", "t", "i", "n", "g", "R", "e", "s", "o", "u", "r", "c", "e">>,
       endpoint |-> <<>>],
      [segs |-> << [kind |-> "lit", text |-> "history"], [kind |-> "lit", text |-> "download"] >>,
       slash |-> TRUE, rule |-> "/history/download/",
       resource |-> <<"H", "i", "s", "t", "o", "r", "y", "D", "o", "w", "n", "l", "o", "a", "d", "i", "n", "g", "R", "e", "s", "o", "u", "r", "c", "e">>,
       endpoint |-> <<>>],
      [segs |-> << [kind |-> "lit", text |-> "queried_addresses"] >>,
       slash |-> FALSE, rule |-> "/queried_addresses",
       resource |-> <<"Q", "u", "e", "r", "i", "e", "d", "A", "d", "d", "r", "e", "s", "s", "e", "s", "R", "e", "s", "o", "u", "r", "c", "e">>,
       endpoint |-> <<>>],
      [segs |-> << [kind |-> "lit", text |-> "blockchains"], [kind |-> "lit", text |-> "ETH"], [kind |-> "lit", text |-> "transactions"] >>,
       slash |-> FALSE, rule |-> "/blockchains/ETH/transactions",
       resource |-> <<"E", "t", "h", "e", "r", "e", "u", "m", "T", "r", "a", "n", "s", "a", "c", "t", "i", "o", "n", "s", "R", "e", "s", "o", "u", "r", "c", "e">>,
       endpoint |-> <<>>],
      [segs |-> << [kind |-> "lit", text |-> "blockchains"], [kind |-> "lit", text |-> "ETH"], [kind |-> "lit", text |-> "transactions"], [kind |-> "string", text |-> "address"] >>,
       slash |-> FALSE, rule |-> "/blockchains/ETH/transactions/<string:address>",
       resource |-> <<"E", "t", "h", "e", "r", "e", "u", "m", "T", "r", "a", "n", "s", "a", "c", "t", "i", "o", "n", "s", "R", "e", "s", "o", "u", "r", "c", "e">>,
       endpoint |-> <<"p", "e", "r", "_", "a", "d", "d", "r", "e", "s", "s", "_", "e", "t", "h", "e", "r", "e", "u", "m", "_", "t", "r", "a", "n", "s", "a", "c", "t", "i", "o", "n", "s", "_", "r", "e", "s", "o", "u", "r", "c", "e">>],
      [segs |-> << [kind |-> "lit", text |-> "blockchains"], [kind |-> "lit", text |-> "ETH2"], [kind |-> "lit", text |-> "stake"], [kind |-> "lit", text |-> "deposits"] >>,
       slash |-> FALSE, rule |-> "/blockchains/ETH2/stake/deposits",
       resource |-> <<"E", "t", "h", "2", "S", "t", "a", "k", "e", "D", "e", "p", "o", "s", "i", "t", "s", "R", "e", "s", "o", "u", "r", "c", "e">>,
       endpoint |-> <<>>],
      [segs |-> << [kind |-> "lit", text |-> "blockchains"], [kind |-> "lit", text |-> "ETH2"], [kind |-> "lit", text |-> "stake"], [kind |-> "lit", text |-> "details"] >>,
       slash |-> FALSE, rule |-> "/blockchains/ETH2/stake/details",
       resource |-> <<"E", "t", "h", "2", "S", "t", "a", "k", "e", "D", "e", "t", "a", "i", "l", "s", "R", "e", "s", "o", "u", "r", "c", "e">>,
       endpoint |-> <<>>],
      [segs |-> << [kind |-> "lit", text |-> "blockchains"], [kind |-> "lit", text |-> "ETH"], [kind |-> "lit", text |-> "defi"] >>,
       slash |-> FALSE, rule |-> "/blockchains/ETH/defi",
       resource |-> <<"D", "e", "f", "i", "B", "a", "l", "a", "n", "c", "e", "s", "R", "e", "s", "o", "u", "r", "c", "e">>,
       endpoint |-> <<>>],
      [segs |-> << [kind |-> "lit", text |-> "blockchains"], [kind |-> "lit", text |-> "ETH"], [kind |-> "lit", text |-> "airdrops"] >>,
       slash |-> FALSE, rule |-> "/blockchains/ETH/airdrops",
       resource |-> <<"E", "t", "h", "e", "r", "e", "u", "m", "A", "i", "r", "d", "r", "o", "p", "s", "R", "e", "s", "o", "u", "r", "c", "e">>,
       endpoint |-> <<>>],
      [segs |-> << [kind |-> "lit", text |-> "blockchains"], [kind |-> "lit", text |-> "ETH"], [kind |-> "lit", text |-> "modules"], [kind |-> "string", text |-> "module_name"], [kind |-> "lit", text |-> "data"] >>,
       slash |-> FALSE, rule |-> "/blockchains/ETH/modules/<string:module_name>/data",
       resource |-> <<"N", "a", "m", "e", "d", "E", "t", "h", "e", "r", "e", "u", "m", "M", "o", "d", "u", "l", "e", "D", "a", "t", "a", "R", "e", "s", "o", "u", "r", "c", "e">>,
       endpoint |-> <<>>],
      [segs |-> << [kind |-> "lit", text |-> "blockchains"], [kind |-> "lit", text |-> "ETH"], [kind |-> "lit", text |-> "modules"], [kind |-> "lit", text |-> "data"] >>,
       slash |-> FALSE, rule |-> "/blockchains/ETH/modules/data",
       resource |-> <<"E", "t", "h", "e", "r", "e", "u", "m", "M", "o", "d", "u", "l", "e", "D", "a", "t", "a", "R", "e", "s", "o", "u", "r", "c", "e">>,
       endpoint |-> <<>>],
      [segs |-> << [kind |-> "lit", text |-> "blockchains"], [kind |-> "lit", text |-> "ETH"], [kind |-> "lit", text |-> "modules"] >>,
       slash |-> TRUE, rule |-> "/blockchains/ETH/modules/",
       resource |-> <<"E", "t", "h", "e", "r", "e", "u", "m", "M", "o", "d", "u", "l", "e", "R", "e", "s", "o", "u", "r", "c", "e">>,
       endpoint |-> <<>>],
      [segs |-> << [kind |-> "lit", text |-> "blockchains"], [kind |-> "lit", text |-> "ETH"], [kind |-> "lit", text |-> "modules"], [kind |-> "lit", text |-> "makerdao"], [kind |-> "lit", text |-> "dsrbalance"] >>,
       slash |-> FALSE, rule |-> "/blockchains/ETH/modules/makerdao/dsrbalance",
       resource |-> <<"M", "a", "k", "e", "r", "d", "a", "o", "D", "S", "R", "B", "a", "l", "a", "n", "c", "e", "R", "e", "s", "o", "u", "r", "c", "e">>,
       endpoint |-> <<>>],
      [segs |-> << [kind |-> "lit", text |-> "blockchains"], [kind |-> "lit", text |-> "ETH"], [kind |-> "lit", text |-> "modules"], [kind |-> "lit", text |-> "makerdao"], [kind |-> "lit", text |-> "dsrhistory"] >>,
       slash |-> FALSE, rule |-> "/blockchains/ETH/modules/makerdao/dsrhistory",
       resource |-> <<"M", "a", "k", "e", "r", "d", "a", "o", "D", "S", "R", "H", "i", "s", "t", "o", "r", "y", "R", "e", "s", "o", "u", "r", "c", "e">>,
       endpoint |-> <<>>],
      [segs |-> << [kind |-> "lit", text |-> "blockchains"], [kind |-> "lit", text |-> "ETH"], [kind |-> "lit", text |-> "modules"], [kind |-> "lit", text |-> "makerdao"], [kind |-> "lit", text |-> "vaults"] >>,
       slash |-> FALSE, rule |-> "/blockchains/ETH/modules/makerdao/vaults",
       resource |-> <<"M", "a", "k", "e", "r", "d", "a", "o", "V", "a", "u", "l", "t", "s", "R", "e", "s", "o", "u", "r", "c", "e">>,
       endpoint |-> <<>>],
      [segs |-> << [kind |-> "lit", text |-> "blockchains"], [kind |-> "lit", text |-> "ETH"], [kind |-> "lit", text |-> "modules"], [kind |-> "lit", text |-> "makerdao"], [kind |-> "lit", text |-> "vaultdetails"] >>,
       slash |-> FALSE, rule |-> "/blockchains/ETH/modules/makerdao/vaultdetails",
       resource |-> <<"M", "a", "k", "e", "r", "d", "a", "o", "V", "a", "u", "l", "t", "D", "e", "t", "a", "i", "l", "s", "R", "e", "s", "o", "u", "r", "c", "e">>,
       endpoint |-> <<>>],
      [segs |-> << [kind |-> "lit", text |-> "blockchains"], [kind |-> "lit", text |-> "ETH"], [kind |-> "lit", text |-> "modules"], [kind |-> "lit", text |-> "aave"], [kind |-> "lit", text |-> "balances"] >>,
       slash |-> FALSE, rule |-> "/blockchains/ETH/modules/aave/balances",
       resource |-> <<"A", "a", "v", "e", "B", "a", "l", "a", "n", "c", "e", "s", "R", "e", "s", "o", "u", "r", "c", "e">>,
       endpoint |-> <<>>],
      [segs |-> << [kind |-> "lit", text |-> "blockchains"], [kind |-> "lit", text |-> "ETH"], [kind |-> "lit", text |-> "modules"], [kind |-> "lit", text |-> "aave"], [kind |-> "lit", text |-> "history"] >>,
       slash |-> FALSE, rule |-> "/blockchains/ETH/modules/aave/history",
       resource |-> <<"A", "a", "v", "e", "H", "i", "s", "t", "o", "r", "y", "R", "e", "s", "o", "u", "r", "c", "e">>,
       endpoint |-> <<>>],
      [segs |-> << [kind |-> "lit", text |-> "blockchains"], [kind |-> "lit", text |-> "ETH"], [kind |-> "lit", text |-> "modules"], [kind |-> "lit", text |-> "adex"], [kind |-> "lit", text |-> "balances"] >>,
       slash |-> FALSE, rule |-> "/blockchains/ETH/modules/adex/balances",
       resource |-> <<"A", "d", "e", "x", "B", "a", "l", "a", "n", "c", "e", "s", "R", "e", "s", "o", "u", "r", "c", "e">>,
       endpoint |-> <<>>],
      [segs |-> << [kind |-> "lit", text |-> "blockchains"], [kind |-> "lit", text |-> "ETH"], [kind |-> "lit", text |-> "modules"], [kind |-> "lit", text |-> "adex"], [kind |-> "lit", text |-> "history"] >>,
       slash |-> FALSE, rule |-> "/blockchains/ETH/modules/adex/history",
       resource |-> <<"A", "d", "e", "x", "H", "i", "s", "t", "o", "r", "y", "R", "e", "s", "o", "u", "r", "c", "e">>,
       endpoint |-> <<>>],
      [segs |-> << [kind |-> "lit", text |-> "blockchains"], [kind |-> "lit", text |-> "ETH"], [kind |-> "lit", text |-> "modules"], [kind |-> "lit", text |-> "balancer"], [kind |-> "lit", text |-> "balances"] >>,
       slash |-> FALSE, rule |-> "/blockchains/ETH/modules/balancer/balances",
       resource |-> <<"B", "a", "l", "a", "n", "c", "e", "r", "B", "a", "l", "a", "n", "c", "e", "s", "R", "e", "s", "o", "u", "r", "c", "e">>,
       endpoint |-> <<>>],
      [segs |-> << [kind |-> "lit", text |-> "blockchains"], [kind |-> "lit", text |-> "ETH"], [kind |-> "lit", text |-> "modules"], [kind |-> "lit", text |-> "balancer"], [kind |-> "lit", text |-> "history"], [kind |-> "lit", text |-> "trades"] >>,
       slash |-> FALSE, rule |-> "/blockchains/ETH/modules/balancer/history/trades",
       resource |-> <<"B", "a", "l", "a", "n", "c", "e", "r", "T", "r", "a", "d", "e", "s", "H", "i", "s", "t", "o", "r", "y", "R", "e", "s", "o", "u", "r", "c", "e">>,
       endpoint |-> <<>>],
      [segs |-> << [kind |-> "lit", text |-> "blockchains"], [kind |-> "lit", text |-> "ETH"], [kind |-> "lit", text |-> "modules"], [kind |-> "lit", text |-> "balancer"], [kind |-> "lit", text |-> "history"], [kind |-> "lit", text |-> "events"] >>,
       slash |-> FALSE, rule |-> "/blockchains/ETH/modules/balancer/history/events",
       resource |-> <<"B", "a", "l", "a", "n", "c", "e", "r", "E", "v", "e", "n", "t", "s", "H", "i", "s", "t", "o", "r", "y", "R", "e", "s", "o", "u", "r", "c", "e">>,
       endpoint |-> <<>>],
      [segs |-> << [kind |-> "lit", text |-> "blockchains"], [kind |-> "lit", text |-> "ETH"], [kind |-> "lit", text |-> "modules"], [kind |-> "lit", text |-> "compound"], [kind |-> "lit", text |-> "balances"] >>,
       slash |-> FALSE, rule |-> "/blockchains/ETH/modules/compound/balances",
       resource |-> <<"C", "o", "m", "p", "o", "u", "n", "d", "B", "a", "l", "a", "n", "c", "e", "s", "R", "e", "s", "o", "u", "r", "c", "e">>,
       endpoint |-> <<>>],
      [segs |-> << [kind |-> "lit", text |-> "blockchains"], [kind |-> "lit", text |-> "ETH"], [kind |-> "lit", text |-> "modules"], [kind |-> "lit", text |-> "compound"], [kind |-> "lit", text |-> "history"] >>,
       slash |-> FALSE, rule |-> "/blockchains/ETH/modules/compound/history",
       resource |-> <<"C", "o", "m", "p", "o", "u", "n", "d", "H", "i", "s", "t", "o", "r", "y", "R", "e", "s", "o", "u", "r", "c", "e">>,
       endpoint |-> <<>>],
      [segs |-> << [kind |-> "lit", text |-> "blockchains"], [kind |-> "lit", text |-> "ETH"], [kind |-> "lit", text |-> "modules"], [kind |-> "lit", text |-> "uniswap"], [kind |-> "lit", text |-> "balances"] >>,
       slash |-> FALSE, rule |-> "/blockchains/ETH/modules/uniswap/balances",
       resource |-> <<"U", "n", "i", "s", "w", "a", "p", "B", "a", "l", "a", "n", "c", "e", "s", "R", "e", "s", "o", "u", "r", "c", "e">>,
       endpoint |-> <<>>],
      [segs |-> << [kind |-> "lit", text |-> "blockchains"], [kind |-> "lit", text |-> "ETH"], [kind |-> "lit", text |-> "modules"], [kind |-> "lit", text |-> "uniswap"], [kind |-> "lit", text |-> "history"], [kind |-> "lit", text |-> "events"] >>,
       slash |-> FALSE, rule |-> "/blockchains/ETH/modules/uniswap/history/events",
       resource |-> <<"U", "n", "i", "s", "w", "a", "p", "E", "v", "e", "n", "t", "s", "H", "i", "s", "t", "o", "r", "y", "R", "e", "s", "o", "u", "r", "c", "e">>,
       endpoint |-> <<>>],
      [segs |-> << [kind |-> "lit", text |-> "blockchains"], [kind |-> "lit", text |-> "ETH"], [kind |-> "lit", text |-> "modules"], [kind |-> "lit", text |-> "uniswap"], [kind |-> "lit", text |-> "history"], [kind |-> "lit", text |-> "trades"] >>,
       slash |-> FALSE, rule |-> "/blockchains/ETH/modules/uniswap/history/trades",
       resource |-> <<"U", "n", "i", "s", "w", "a", "p", "T", "r", "a", "d", "e", "s", "H", "i", "s", "t", "o", "r", "y", "R", "e", "s", "o", "u", "r", "c", "e">>,
       endpoint |-> <<>>],
      [segs |-> << [kind |-> "lit", text |-> "blockchains"], [kind |-> "lit", text |-> "ETH"], [kind |-> "lit", text |-> "modules"], [kind |-> "lit", text |-> "yearn"], [kind |-> "lit", text |-> "vaults"], [kind |-> "lit", text |-> "balances"] >>,
       slash |-> FALSE, rule |-> "/blockchains/ETH/modules/yearn/vaults/balances",
       resource |-> <<"Y", "e", "a", "r", "n", "V", "a", "u", "l", "t", "s", "B", "a", "l", "a", "n", "c", "e", "s", "R", "e", "s", "o", "u", "r", "c", "e">>,
       endpoint |-> <<>>],
      [segs |-> << [kind |-> "lit", text |-> "blockchains"], [kind |-> "lit", text |-> "ETH"], [kind |-> "lit", text |-> "modules"], [kind |-> "lit", text |-> "yearn"], [kind |-> "lit", text |-> "vaults"], [kind |-> "lit", text |-> "history"] >>,
       slash |-> FALSE, rule |-> "/blockchains/ETH/modules/yearn/vaults/history",
       resource |-> <<"Y", "e", "a", "r", "n", "V", "a", "u", "l", "t", "s", "H", "i", "s", "t", "o", "r", "y", "R", "e", "s", "o", "u", "r", "c", "e">>,
       endpoint |-> <<>>],
      [segs |-> << [kind |-> "lit", text |-> "blockchains"], [kind |-> "lit", text |-> "ETH"], [kind |-> "lit", text |-> "modules"], [kind |-> "lit", text |-> "loopring"], [kind |-> "lit", text |-> "balances"] >>,
       slash |-> FALSE, rule |-> "/blockchains/ETH/modules/loopring/balances",
       resource |-> <<"L", "o", "o", "p", "r", "i", "n", "g", "B", "a", "l", "a", "n", "c", "e", "s", "R", "e", "s", "o", "u", "r", "c", "e">>,
       endpoint |-> <<>>],
      [segs |-> << [kind |-> "lit", text |-> "blockchains"], [kind |-> "string", text |-> "blockchain"] >>,
       slash |-> FALSE, rule |-> "/blockchains/<string:blockchain>",
       resource |-> <<"B", "l", "o", "c", "k", "c", "h", "a", "i", "n", "s", "A", "c", "c", "o", "u", "n", "t", "s", "R", "e", "s", "o", "u", "r", "c", "e">>,
       endpoint |-> <<>>],
      [segs |-> << [kind |-> "lit", text |-> "blockchains"], [kind |-> "lit", text |-> "BTC"], [kind |-> "lit", text |-> "xpub"] >>,
       slash |-> FALSE, rule |-> "/blockchains/BTC/xpub",
       resource |-> <<"B", "T", "C", "X", "p", "u", "b", "R", "e", "s", "o", "u", "r", "c", "e">>,
       endpoint |-> <<>>],
      [segs |-> << [kind |-> "lit", text |-> "assets"] >>,
       slash |-> FALSE, rule |-> "/assets",
       resource |-> <<"O", "w", "n", "e", "d", "A", "s", "s", "e", "t", "s", "R", "e", "s", "o", "u", "r", "c", "e">>,
       endpoint |-> <<>>],
      [segs |-> << [kind |-> "lit", text |-> "assets"], [kind |-> "lit", text |-> "all"] >>,
       slash |-> FALSE, rule |-> "/assets/all",
       resource |-> <<"A", "l", "l", "A", "s", "s", "e", "t", "s", "R", "e", "s", "o", "u", "r", "c", "e">>,
       endpoint |-> <<>>],
      [segs |-> << [kind |-> "lit", text |-> "assets"], [kind |-> "lit", text |-> "ethereum"] >>,
       slash |-> FALSE, rule |-> "/assets/ethereum",
       resource |-> <<"E", "t", "h", "e", "r", "e", "u", "m", "A", "s", "s", "e", "t", "s", "R", "e", "s", "o", "u", "r", "c", "e">>,
       endpoint |-> <<>>],
      [segs |-> << [kind |-> "lit", text |-> "assets"], [kind |-> "lit", text |-> "prices"], [kind |-> "lit", text |-> "current"] >>,
       slash |-> FALSE, rule |-> "/assets/prices/current",
       resource |-> <<"C", "u", "r", "r", "e", "n", "t", "A", "s", "s", "e", "t", "s", "P", "r", "i", "c", "e", "R", "e", "s", "o", "u", "r", "c", "e">>,
       endpoint |-> <<>>],
      [segs |-> << [kind |-> "lit", text |-> "assets"], [kind |-> "lit", text |-> "prices"], [kind |-> "lit", text |-> "historical"] >>,
       slash |-> FALSE, rule |-> "/assets/prices/historical",
       resource |-> <<"H", "i", "s", "t", "o", "r", "i", "c", "a", "l", "A", "s", "s", "e", "t", "s", "P", "r", "i", "c", "e", "R", "e", "s", "o", "u", "r", "c", "e">>,
       endpoint |-> <<>>],
      [segs |-> << [kind |-> "lit", text |-> "assets"], [kind |-> "lit", text |-> "ignored"] >>,
       slash |-> FALSE, rule |-> "/assets/ignored",
       resource |-> <<"I", "g", "n", "o", "r", "e", "d", "A", "s", "s", "e", "t", "s", "R", "e", "s", "o", "u", "r", "c", "e">>,
       endpoint |-> <<>>],
      [segs |-> << [kind |-> "lit", text |-> "actions"], [kind |-> "lit", text |-> "ignored"] >>,
       slash |-> FALSE, rule |-> "/actions/ignored",
       resource |-> <<"I", "g", "n", "o", "r", "e", "d", "A", "c", "t", "i", "o", "n", "s", "R", "e", "s", "o", "u", "r", "c", "e">>,
       endpoint |-> <<>>],
      [segs |-> << [kind |-> "lit", text |-> "version"] >>,
       slash |-> FALSE, rule |-> "/version",
       resource |-> <<"V", "e", "r", "s", "i", "o", "n", "R", "e", "s", "o", "u", "r", "c", "e">>,
       endpoint |-> <<>>],
      [segs |-> << [kind |-> "lit", text |-> "ping"] >>,
       slash |-> FALSE, rule |-> "/ping",
       resource |-> <<"P", "i", "n", "g", "R", "e", "s", "o", "u", "r", "c", "e">>,
       endpoint |-> <<>>],
      [segs |-> << [kind |-> "lit", text |-> "import"] >>,
       slash |-> FALSE, rule |-> "/import",
       resource |-> <<"D", "a", "t", "a", "I", "m", "p", "o", "r", "t", "R", "e", "s", "o", "u", "r", "c", "e">>,
       endpoint |-> <<>>]
    >>

\* the url tuples of the shipped table, as setup_urls is given them: an entry
\* without a name of its own is a 2-tuple
ShippedUrls ==
    [i \in 1..Len(URLS_V1) |->
        IF URLS_V1[i].endpoint = <<>>
        THEN <<URLS_V1[i].rule, URLS_V1[i].resource>>
        ELSE <<URLS_V1[i].rule, URLS_V1[i].resource, URLS_V1[i].endpoint>>]

(***************************************************************************)
(* setup_urls (server.py 205-223)                                          *)
(***************************************************************************)
\* a naming that lower-cases the explicit name instead of the class name
EndpointOfWrong(url_tuple) ==
    IF Len(url_tuple) = 2 THEN url_tuple[2] ELSE StrLower(url_tuple[3])

\* a naming that never looks at the entry's own name
EndpointOfClassOnly(url_tuple) == StrLower(url_tuple[2])

\* the endpoint name of a well-formed url tuple (lines 211-215)
EndpointOf(url_tuple) ==
    IF Len(url_tuple) = 2 THEN StrLower(url_tuple[2]) ELSE url_tuple[3]

\* a length test that lets a tuple of 4 elements through
WellFormedAlsoFour(url_tuple) == Len(url_tuple) \in {2, 3, 4}

\* lines 211-217: a tuple of 2 or of 3 elements is accepted, any other raises
WellFormed(url_tuple) == Len(url_tuple) = 2 \/ Len(url_tuple) = 3

\* kwargs carrying another backend object than the one given
KwargsWrong(api) == [rest_api_object |-> CHOOSE o \in RestApiObjects : o # api]

\* the object placed in resource_class_kwargs (line 221)
ResourceClassKwargs(api) == [rest_api_object |-> api]

\* a registration that puts the newest resource first
AddResourceInFront(ctx, resource_cls, route, kwargs, endpoint) ==
    << [resource_cls |-> resource_cls, route |-> route,
        resource_class_kwargs |-> kwargs, endpoint |-> endpoint] >> \o ctx

\* flask_restful Api.add_resource on an Api bound to a blueprint: the resource
\* is recorded for the blueprint's later registration (lines 218-223)
AddResource(ctx, resource_cls, route, kwargs, endpoint) ==
    Append(ctx, [resource_cls |-> resource_cls,
                 route |-> route,
                 resource_class_kwargs |-> kwargs,
                 endpoint |-> endpoint])

\* one iteration of the for loop of setup_urls
SetupUrlsStep ==
    /\ init_pc = "setup_urls"
    /\ url_idx <= Len(urls)
    /\ LET url_tuple == urls[url_idx] IN
         IF WellFormed(url_tuple)
         THEN /\ flask_api_context' =
                    AddResource(flask_api_context, url_tuple[2], url_tuple[1],
                                ResourceClassKwargs(rest_api), EndpointOf(url_tuple))
              /\ url_idx' = url_idx + 1
              /\ UNCHANGED <<init_pc, init_exc>>
         ELSE /\ init_exc' = [type |-> "ValueError", at |-> url_idx]
              /\ init_pc' = "raised"
              /\ UNCHANGED <<flask_api_context, url_idx>>
    /\ UNCHANGED <<urls, rest_api, self_rest_api, view_functions, error_handlers>>
    /\ UNCHANGED reqVars
    /\ UNCHANGED serverVars
    /\ UNCHANGED fieldVars

\* lines 273-277: setup_urls returned; the constructor keeps its arguments
InitAssignFields ==
    /\ init_pc = "setup_urls"
    /\ url_idx > Len(urls)
    /\ self_rest_api' = rest_api
    /\ init_pc' = "register_blueprint"
    /\ UNCHANGED <<urls, rest_api, url_idx, flask_api_context, view_functions,
                   error_handlers, init_exc>>
    /\ UNCHANGED reqVars
    /\ UNCHANGED serverVars
    /\ UNCHANGED fieldVars

\* a registration that binds whatever it is given
EndpointClashNever(ctx) == FALSE

\* Flask.add_url_rule refuses to bind an endpoint name to a second view
\* function; every add_resource call made its own view function
EndpointClash(ctx) ==
    \E i, j \in 1..Len(ctx) : i < j /\ ctx[i].endpoint = ctx[j].endpoint

\* line 278: flask_app.register_blueprint replays the recorded resources
RegisterBlueprint ==
    /\ init_pc = "register_blueprint"
    /\ IF EndpointClash(flask_api_context)
       THEN /\ init_exc' = [type |-> "AssertionError", at |-> 0]
            /\ init_pc' = "raised"
            /\ UNCHANGED view_functions
       ELSE /\ view_functions' =
                   { flask_api_context[k].endpoint : k \in 1..Len(flask_api_context) }
            /\ init_pc' = "install_handlers"
            /\ UNCHANGED init_exc
    /\ UNCHANGED <<urls, rest_api, url_idx, flask_api_context, self_rest_api,
                   error_handlers>>
    /\ UNCHANGED reqVars
    /\ UNCHANGED serverVars
    /\ UNCHANGED fieldVars

\* lines 280-282: the two framework level error handlers
InstallErrorHandlers ==
    /\ init_pc = "install_handlers"
    /\ error_handlers' = { [on |-> "404", handler |-> "endpoint_not_found"],
                           [on |-> "Exception", handler |-> "unhandled_exception"] }
    /\ init_pc' = "constructed"
    /\ UNCHANGED <<urls, rest_api, url_idx, flask_api_context, self_rest_api,
                   view_functions, init_exc>>
    /\ UNCHANGED reqVars
    /\ UNCHANGED serverVars
    /\ UNCHANGED fieldVars

(***************************************************************************)
(* Address strings (encoding.py 1184-1347).  A string is kept by what the  *)
(* code asks of it: its kind, which account or name it spells, and for a   *)
(* hexadecimal ethereum address the casing it is spelled in.               *)
(*   hex - 40 hex digits, spelled lower-case or EIP-55 checksum-cased      *)
(*   ens - a name ending in '.eth'                                         *)
(*   btc - a string is_valid_btc_address accepts                           *)
(*   ksm - a string is_valid_kusama_address accepts                        *)
(***************************************************************************)
AddressStrings ==
    [kind : {"hex"}, id : {1, 2}, form : {"lower", "checksum"}]
    \cup [kind : {"ens"}, id : {1, 2}, form : {"name"}]
    \cup [kind : {"btc", "ksm"}, id : {1}, form : {"plain"}]

\* str.endswith('.eth')
EndsWithEth(s) == s.kind = "ens"

\* eth_utils.to_checksum_address raises ValueError unless given a hex address
IsHexAddress(s) == s.kind = "hex"
to_checksum_address(s) == [s EXCEPT !.form = "checksum"]

is_valid_btc_address(s) == s.kind = "btc"
is_valid_kusama_address(s) == s.kind = "ksm"

BITCOIN == "SupportedBlockchain.BITCOIN"
ETHEREUM == "SupportedBlockchain.ETHEREUM"
KUSAMA == "SupportedBlockchain.KUSAMA"

NoErr == [exc |-> "none"]
ValidationError(field, template, value) ==
    [exc |-> "ValidationError", field |-> field, message |-> <<template, value>>]

\* a deserialization whose kusama branch answers with the ethereum member
BlockchainField_deserialize_ksm_as_eth(value) ==
    IF value \in {"btc", "BTC"} THEN [ok |-> TRUE, value |-> BITCOIN]
    ELSE IF value \in {"eth", "ETH", "ksm", "KSM"} THEN [ok |-> TRUE, value |-> ETHEREUM]
    ELSE [ok |-> FALSE,
          err |-> ValidationError("blockchain", "Unrecognized value given for blockchain name", value)]

\* BlockchainField._deserialize (encoding.py 333-339)
BlockchainField_deserialize(value) ==
    IF value \in {"btc", "BTC"} THEN [ok |-> TRUE, value |-> BITCOIN]
    ELSE IF value \in {"eth", "ETH"} THEN [ok |-> TRUE, value |-> ETHEREUM]
    ELSE IF value \in {"ksm", "KSM"} THEN [ok |-> TRUE, value |-> KUSAMA]
    ELSE [ok |-> FALSE,
          err |-> ValidationError("blockchain", "Unrecognized value given for blockchain name", value)]

\* the address_getter handed to the validator: x['address'] for the PUT and
\* PATCH schemas (line 1364), x itself for the DELETE schema (line 1413)
address_getter(schema, account_data) ==
    IF schema = "delete" THEN account_data ELSE account_data.address

\* a comparison of the strings as given, without checksum-casing
EthAddressAsGiven(address_string) == address_string

\* lines 1194-1206: the value the ethereum branch compares
EthComparedAddress(address_string) ==
    IF ~EndsWithEth(address_string)
    THEN to_checksum_address(address_string)
    ELSE address_string

\* the per-chain format check of one entry (lines 1195-1203, 1220, 1237)
FormatError(blockchain, a) ==
    IF blockchain = ETHEREUM
    THEN IF ~EndsWithEth(a) /\ ~IsHexAddress(a)
         THEN ValidationError("address", "is not an ethereum address", a)
         ELSE NoErr
    ELSE IF blockchain = BITCOIN
    THEN IF ~EndsWithEth(a) /\ ~is_valid_btc_address(a)
         THEN ValidationError("address", "is not a valid bitcoin address", a)
         ELSE NoErr
    ELSE IF ~EndsWithEth(a) /\ ~is_valid_kusama_address(a)
         THEN ValidationError("address", "is not a valid kusama address", a)
         ELSE NoErr

\* the loops of _validate_blockchain_account_schemas from entry i on, with
\* the set given_addresses built so far; the first error found is raised
RECURSIVE ValidateFrom(_, _, _, _, _)
ValidateFrom(blockchain, accounts, schema, i, given_addresses) ==
    IF i > Len(accounts) THEN NoErr
    ELSE LET a == address_getter(schema, accounts[i])
             fe == FormatError(blockchain, a)
             address == IF blockchain = ETHEREUM THEN EthComparedAddress(a) ELSE a
         IN  IF fe # NoErr THEN fe
             ELSE IF address \in given_addresses
             THEN ValidationError("address", "appears multiple times in the request data", address)
             ELSE ValidateFrom(blockchain, accounts, schema, i + 1,
                               given_addresses \cup {address})

\* _validate_blockchain_account_schemas (encoding.py 1184-1247)
validate_blockchain_account_schemas(data, schema) ==
    ValidateFrom(data.blockchain, data.accounts, schema, 1, {})

(***************************************************************************)
(* Post-load transformation (encoding.py 1250-1433).  ethereum.ens_lookup  *)
(* is the external resolver: it answers None, or the record stored for the *)
(* name: an address for Ethereum, a scriptpubkey for Bitcoin, a Substrate  *)
(* public key for Kusama, the last two either decodable or not.            *)
(***************************************************************************)
NoneValue == [kind |-> "None", id |-> 0, form |-> "None"]

EnsResults(blockchain) ==
    {NoneValue} \cup
    (IF blockchain = ETHEREUM THEN [kind : {"hex"}, id : {1, 2}, form : {"lower"}]
     ELSE IF blockchain = BITCOIN
     THEN [kind : {"scriptpubkey"}, id : {1}, form : {"valid", "invalid"}]
     ELSE [kind : {"pubkey"}, id : {1}, form : {"valid", "invalid"}])

\* a transformation that asks the resolver about every address
CallsEnsLookupAlways(blockchain, given_address) == TRUE

\* whether the transformation of given_address calls ens_lookup: a '.eth'
\* name for Bitcoin and Kusama (1258, 1323); for Ethereum whatever makes
\* to_checksum_address raise ValueError (1287-1289)
CallsEnsLookup(blockchain, given_address) ==
    IF blockchain = ETHEREUM THEN ~IsHexAddress(given_address)
    ELSE EndsWithEth(given_address)

\* _transform_btc_address (1250-1282), resolved being ens_lookup's answer
transform_btc_address(given_address, resolved) ==
    IF ~EndsWithEth(given_address) THEN [ok |-> TRUE, address |-> given_address]
    ELSE IF resolved = NoneValue
    THEN [ok |-> FALSE,
          err |-> ValidationError("address", "ENS could not be resolved for Bitcoin", given_address)]
    ELSE IF resolved.form # "valid"
    THEN [ok |-> FALSE,
          err |-> ValidationError("address", "ENS does not contain a valid Bitcoin scriptpubkey", given_address)]
    ELSE [ok |-> TRUE, address |-> [kind |-> "btc", id |-> resolved.id, form |-> "plain"]]

\* a resolver miss that is passed over instead of raised
transform_eth_address_keeps_name(given_address, resolved) ==
    IF IsHexAddress(given_address)
    THEN [ok |-> TRUE, address |-> to_checksum_address(given_address)]
    ELSE IF resolved = NoneValue
    THEN [ok |-> TRUE, address |-> given_address]
    ELSE [ok |-> TRUE, address |-> to_checksum_address(resolved)]

\* _transform_eth_address (1285-1302)
transform_eth_address(given_address, resolved) ==
    IF IsHexAddress(given_address)
    THEN [ok |-> TRUE, address |-> to_checksum_address(given_address)]
    ELSE IF resolved = NoneValue
    THEN [ok |-> FALSE,
          err |-> ValidationError("address", "ENS could not be resolved", given_address)]
    ELSE [ok |-> TRUE, address |-> to_checksum_address(resolved)]

\* _transform_ksm_address (1305-1347)
transform_ksm_address(given_address, resolved) ==
    IF ~EndsWithEth(given_address) THEN [ok |-> TRUE, address |-> given_address]
    ELSE IF resolved = NoneValue
    THEN [ok |-> FALSE,
          err |-> ValidationError("address", "ENS could not be resolved for Kusama", given_address)]
    ELSE IF resolved.form # "valid"
    THEN [ok |-> FALSE,
          err |-> ValidationError("address", "ENS does not contain a valid Substrate public key", given_address)]
    ELSE [ok |-> TRUE, address |-> [kind |-> "ksm", id |-> resolved.id, form |-> "plain"]]

\* the branch of transform_data taken for the request's blockchain
transform_address(blockchain, given_address, resolved) ==
    IF blockchain = BITCOIN THEN transform_btc_address(given_address, resolved)
    ELSE IF blockchain = ETHEREUM THEN transform_eth_address(given_address, resolved)
    ELSE transform_ksm_address(given_address, resolved)

(***************************************************************************)
(* Framework level handlers (server.py 226-254, 284-291)                   *)
(***************************************************************************)
\* rest.wrap_in_fail_result: the structured failure body
wrap_in_fail_result(message) == [result |-> None, message |-> message]

NoResponse == [status |-> 0, body |-> [result |-> None, message |-> <<>>]]

\* a 404 handler that never reads the error's description
endpoint_not_found_fixed_text(e) ==
    [status |-> 404, body |-> wrap_in_fail_result(<<"invalid endpoint">>)]

\* endpoint_not_found (226-232)
endpoint_not_found(e) ==
    LET msg == IF e.class = "NotFound" THEN e.description ELSE <<"invalid endpoint">>
    IN  [status |-> 404, body |-> wrap_in_fail_result(msg)]

\* a parsing error handler that lets the request through
handle_request_parsing_error_passes(err) == [aborted |-> FALSE, response |-> NoResponse]

\* handle_request_parsing_error (235-254): err.messages is a dict keyed by
\* the request location, a list, or anything else
handle_request_parsing_error(err) ==
    LET msg == IF err.messages.kind = "dict"
               THEN <<"json.dumps", err.messages.items[1][2]>>
               ELSE IF err.messages.kind = "list"
               THEN <<"join", err.messages.items>>
               ELSE <<"str", err.messages.items>>
    IN  [aborted |-> TRUE,
         response |-> [status |-> 400, body |-> [result |-> None, message |-> msg]]]

\* APIServer.unhandled_exception (284-291): the response it returns
unhandled_exception(exception) ==
    [status |-> 500, body |-> wrap_in_fail_result(<<"str", exception.args>>)]

\* Flask(__name__) is used as created (262-264): PROPAGATE_EXCEPTIONS is
\* never set, and the server runs neither in debug nor in testing mode
PropagateExceptions == FALSE

\* Api(blueprint, ...) (266) wraps the app's exception handling once the
\* blueprint is registered (278): an exception raised inside one of the
\* Api's own resources is answered by Flask-RESTful itself unless the app
\* propagates exceptions; only then does it reach the handlers of 280-281
flask_restful_handle_error(exception) ==
    [status |-> 500, body |-> [message |-> <<"Internal Server Error">>]]

(***************************************************************************)
(* One request through the pipeline: routing, webargs parsing with the     *)
(* request's schema (fields, then @validates_schema, then @post_load),     *)
(* then the resource handler, each failure going to its error handler.     *)
(***************************************************************************)
RawBlockchains == { "ETH", "btc", "KSM", "xyz" }
Schemas == { "put", "patch", "delete" }
RequestPaths == { "/a", "/zz" }
\* what the 404 handler is given for a path no rule matches: flask looks
\* handlers up by exception class, so it is a werkzeug NotFound
NotFoundErrors ==
    { [class |-> "NotFound", args |-> "404",
       description |-> <<"The requested URL was not found on the server">>] }
\* what a resource handler body may raise
HandlerExceptions == { [class |-> "RuntimeError", args |-> "boom", description |-> <<>>] }

IdleReq ==
    [phase |-> "idle", path |-> "", schema |-> "none", raw_blockchain |-> "",
     given_accounts |-> <<>>, blockchain |-> None, accounts |-> <<>>,
     idx |-> 0, out |-> <<>>, err |-> NoErr, exc |-> NoExc, handler_data |-> <<>>]

\* the accounts of a request body: strings for DELETE, objects holding an
\* 'address' for PUT and PATCH
AccountsOf(schema, addrs) ==
    IF schema = "delete" THEN addrs
    ELSE [k \in 1..Len(addrs) |-> [address |-> addrs[k]]]

PathMatches(path) ==
    \E k \in 1..Len(flask_api_context) : flask_api_context[k].route = path

\* webargs raises the schema's errors keyed by the request location
WebargsError(err) ==
    [messages |-> [kind |-> "dict",
                   items |-> << <<"json", [field |-> err.field, messages |-> <<err.message>>]>> >>]]

ReceiveRequest ==
    /\ listening
    /\ req.phase = "idle"
    /\ served < MaxRequests
    /\ \E path \in RequestPaths :
         \E schema \in (IF PathMatches(path) THEN Schemas ELSE {"delete"}) :
           \E rb \in (IF PathMatches(path) THEN RawBlockchains ELSE {"xyz"}) :
             \E addrs \in (IF PathMatches(path)
                           THEN SeqsUpTo(AddressStrings, MaxAccounts) ELSE { <<>> }) :
               req' = [IdleReq EXCEPT !.phase = "received", !.path = path,
                                      !.schema = schema, !.raw_blockchain = rb,
                                      !.given_accounts = AccountsOf(schema, addrs),
                                      !.accounts = AccountsOf(schema, addrs)]
    /\ response' = NoResponse
    /\ handler_calls' = 0
    /\ ens_calls' = <<>>
    /\ UNCHANGED <<log_records, served, listening>>
    /\ UNCHANGED setupVars
    /\ UNCHANGED serverVars
    /\ UNCHANGED fieldVars

\* no route matches: flask calls the handler installed for 404
RouteNotFound ==
    /\ req.phase = "received"
    /\ ~PathMatches(req.path)
    /\ \E e \in NotFoundErrors :
         /\ response' = endpoint_not_found(e)
         /\ req' = [req EXCEPT !.phase = "responded", !.exc = e]
    /\ served' = served + 1
    /\ UNCHANGED <<handler_calls, ens_calls, log_records, listening>>
    /\ UNCHANGED setupVars
    /\ UNCHANGED serverVars
    /\ UNCHANGED fieldVars

\* field level deserialization of the blockchain-accounts schemas
\* (encoding.py 1351-1352, 1399-1401)
DeserializeFields ==
    /\ req.phase = "received"
    /\ PathMatches(req.path)
    /\ LET r == BlockchainField_deserialize(req.raw_blockchain) IN
         IF r.ok
         THEN req' = [req EXCEPT !.phase = "fields_ok", !.blockchain = r.value]
         ELSE req' = [req EXCEPT !.phase = "invalid", !.err = r.err]
    /\ UNCHANGED <<response, handler_calls, ens_calls, log_records, served, listening>>
    /\ UNCHANGED setupVars
    /\ UNCHANGED serverVars
    /\ UNCHANGED fieldVars

\* the @validates_schema hook (1358-1364, 1407-1413)
ValidateSchema ==
    /\ req.phase = "fields_ok"
    /\ LET e == validate_blockchain_account_schemas(
                    [blockchain |-> req.blockchain, accounts |-> req.accounts],
                    req.schema) IN
         IF e = NoErr
         THEN req' = [req EXCEPT !.phase = "transforming", !.idx = 1]
         ELSE req' = [req EXCEPT !.phase = "invalid", !.err = e]
    /\ UNCHANGED <<response, handler_calls, ens_calls, log_records, served, listening>>
    /\ UNCHANGED setupVars
    /\ UNCHANGED serverVars
    /\ UNCHANGED fieldVars

\* the @post_load hook, one account per step (1366-1391, 1415-1433): PUT and
\* PATCH overwrite data['accounts'][idx]['address'], DELETE builds a new list
TransformStep ==
    /\ req.phase = "transforming"
    /\ req.idx <= Len(req.accounts)
    /\ LET given_address == address_getter(req.schema, req.accounts[req.idx])
           looks_up == CallsEnsLookup(req.blockchain, given_address)
       IN  \E resolved \in (IF looks_up THEN EnsResults(req.blockchain) ELSE {NoneValue}) :
             LET r == transform_address(req.blockchain, given_address, resolved) IN
               /\ ens_calls' = IF looks_up
                               THEN Append(ens_calls, [name |-> given_address,
                                                       result |-> resolved])
                               ELSE ens_calls
               /\ IF ~r.ok
                  THEN req' = [req EXCEPT !.phase = "invalid", !.err = r.err]
                  ELSE IF req.schema = "delete"
                  THEN req' = [req EXCEPT !.out = Append(@, r.address), !.idx = @ + 1]
                  ELSE req' = [req EXCEPT !.accounts[req.idx].address = r.address,
                                          !.idx = @ + 1]
    /\ UNCHANGED <<response, handler_calls, log_records, served, listening>>
    /\ UNCHANGED setupVars
    /\ UNCHANGED serverVars
    /\ UNCHANGED fieldVars

\* 'return data' of transform_data (1391, 1433)
TransformReturn ==
    /\ req.phase = "transforming"
    /\ req.idx > Len(req.accounts)
    /\ req' = [req EXCEPT !.phase = "loaded",
                          !.accounts = IF req.schema = "delete" THEN req.out ELSE @]
    /\ UNCHANGED <<response, handler_calls, ens_calls, log_records, served, listening>>
    /\ UNCHANGED setupVars
    /\ UNCHANGED serverVars
    /\ UNCHANGED fieldVars

\* webargs hands the ValidationError to handle_request_parsing_error, whose
\* abort() ends the request; were it to return, parsing would go on
ParsingError ==
    /\ req.phase = "invalid"
    /\ LET h == handle_request_parsing_error(WebargsError(req.err)) IN
         IF h.aborted
         THEN /\ response' = h.response
              /\ req' = [req EXCEPT !.phase = "responded"]
              /\ served' = served + 1
         ELSE /\ req' = [req EXCEPT !.phase = "loaded"]
              /\ UNCHANGED <<response, served>>
    /\ UNCHANGED <<handler_calls, ens_calls, log_records, listening>>
    /\ UNCHANGED setupVars
    /\ UNCHANGED serverVars
    /\ UNCHANGED fieldVars

\* the resource handler body runs with the loaded data and either answers
\* or raises
InvokeHandler ==
    /\ req.phase = "loaded"
    /\ handler_calls' = handler_calls + 1
    /\ \/ /\ req' = [req EXCEPT !.phase = "responded",
                                !.handler_data = <<[blockchain |-> req.blockchain,
                                                    accounts |-> req.accounts]>>]
          /\ response' = [status |-> 200, body |-> [result |-> "done", message |-> <<>>]]
          /\ served' = served + 1
       \/ /\ \E e \in HandlerExceptions :
               req' = [req EXCEPT !.phase = "raised", !.exc = e,
                                  !.handler_data = <<[blockchain |-> req.blockchain,
                                                      accounts |-> req.accounts]>>]
          /\ UNCHANGED <<response, served>>
    /\ UNCHANGED <<ens_calls, log_records, listening>>
    /\ UNCHANGED setupVars
    /\ UNCHANGED serverVars
    /\ UNCHANGED fieldVars

\* an exception left the resource handler.  When the app propagates
\* exceptions flask calls APIServer.unhandled_exception (281, 284-291), which
\* logs at critical level and answers; otherwise Flask-RESTful logs through
\* app.log_exception and answers on its own
UnhandledException ==
    /\ req.phase = "raised"
    /\ IF PropagateExceptions
       THEN /\ log_records' = Append(log_records,
                                     [level |-> "CRITICAL", exc_info |-> TRUE,
                                      request |-> served + 1, exception |-> req.exc])
            /\ response' = unhandled_exception(req.exc)
       ELSE /\ log_records' = Append(log_records,
                                     [level |-> "ERROR", exc_info |-> TRUE,
                                      request |-> served + 1, exception |-> req.exc])
            /\ response' = flask_restful_handle_error(req.exc)
    /\ req' = [req EXCEPT !.phase = "responded"]
    /\ served' = served + 1
    /\ UNCHANGED <<handler_calls, ens_calls, listening>>
    /\ UNCHANGED setupVars
    /\ UNCHANGED serverVars
    /\ UNCHANGED fieldVars

\* the response is written out and the request's greenlet ends; the server
\* goes back to waiting in serve_forever (307)
FinishRequest ==
    /\ req.phase = "responded"
    /\ req' = IdleReq
    /\ response' = NoResponse
    /\ handler_calls' = 0
    /\ ens_calls' = <<>>
    /\ UNCHANGED <<log_records, served, listening>>
    /\ UNCHANGED setupVars
    /\ UNCHANGED serverVars
    /\ UNCHANGED fieldVars

(***************************************************************************)
(* APIServer life cycle (server.py 293-322).  start() spawns a greenlet    *)
(* that executes run(); run() creates the WSGIServer, stores it in         *)
(* self.wsgiserver and blocks in serve_forever(); stop() is the caller's.  *)
(* gevent schedules cooperatively: another greenlet runs only while the    *)
(* caller is outside a call or blocked inside one.                         *)
(***************************************************************************)
Ports == { 4242, 4243 }

Accepting(s) == servers[s].state = "serving"

PortBusy(port) == \E s \in 1..Len(servers) : Accepting(s) /\ servers[s].port = port

\* points where the hub may switch to another greenlet: the caller is
\* outside stop(), blocked in wsgiserver.stop(timeout), or in rest_api.stop()
Scheduled == stop_pc \in {"idle", "server_stopping", "rest_stop"}

\* WSGIServer(...) followed by serve_forever() (298-307): the listener binds
\* its port, or raises when the port is taken
NewServer(port, by) ==
    [state |-> IF PortBusy(port) THEN "bind_failed" ELSE "serving",
     port |-> port, inflight |-> 0, by |-> by]

\* start (309-311)
Start ==
    /\ stop_pc = "idle"
    /\ calls < MaxCalls
    /\ \E port \in Ports :
         greenlets' = Append(greenlets, [state |-> "spawned", port |-> port, server |-> 0])
    /\ greenlet' = Len(greenlets) + 1
    /\ calls' = calls + 1
    /\ UNCHANGED <<wsgiserver, servers, stop_pc, stop_local, backend_stops>>
    /\ UNCHANGED setupVars
    /\ UNCHANGED reqVars
    /\ UNCHANGED fieldVars

\* run (293-307) called directly by the caller
Run ==
    /\ stop_pc = "idle"
    /\ calls < MaxCalls
    /\ \E port \in Ports : servers' = Append(servers, NewServer(port, 0))
    /\ wsgiserver' = Len(servers) + 1
    /\ calls' = calls + 1
    /\ UNCHANGED <<greenlet, greenlets, stop_pc, stop_local, backend_stops>>
    /\ UNCHANGED setupVars
    /\ UNCHANGED reqVars
    /\ UNCHANGED fieldVars

\* the greenlet spawned by start() gets to execute run (293-307)
GreenletRun ==
    /\ Scheduled
    /\ \E g \in 1..Len(greenlets) :
         /\ greenlets[g].state = "spawned"
         /\ LET srv == NewServer(greenlets[g].port, g) IN
              /\ servers' = Append(servers, srv)
              /\ greenlets' = [greenlets EXCEPT
                                 ![g].state = IF srv.state = "serving" THEN "serving" ELSE "dead",
                                 ![g].server = Len(servers) + 1]
    /\ wsgiserver' = Len(servers) + 1
    /\ UNCHANGED <<greenlet, stop_pc, stop_local, backend_stops, calls>>
    /\ UNCHANGED setupVars
    /\ UNCHANGED reqVars
    /\ UNCHANGED fieldVars

\* serve_forever returns once its server was stopped; run returns
GreenletExit ==
    /\ Scheduled
    /\ \E g \in 1..Len(greenlets) :
         /\ greenlets[g].state = "serving"
         /\ servers[greenlets[g].server].state = "stopped"
         /\ greenlets' = [greenlets EXCEPT ![g].state = "dead"]
    /\ UNCHANGED <<wsgiserver, greenlet, servers, stop_pc, stop_local, backend_stops, calls>>
    /\ UNCHANGED setupVars
    /\ UNCHANGED reqVars
    /\ UNCHANGED fieldVars

\* an accepting server takes a connection; its handler is in flight
ConnectionAccepted ==
    /\ Scheduled
    /\ \E s \in 1..Len(servers) :
         /\ Accepting(s)
         /\ servers[s].inflight = 0
         /\ servers' = [servers EXCEPT ![s].inflight = 1]
    /\ UNCHANGED <<wsgiserver, greenlet, greenlets, stop_pc, stop_local, backend_stops, calls>>
    /\ UNCHANGED setupVars
    /\ UNCHANGED reqVars
    /\ UNCHANGED fieldVars

\* an in-flight handler finishes, also during the grace period of a stop
HandlerFinished ==
    /\ Scheduled
    /\ \E s \in 1..Len(servers) :
         /\ servers[s].state \in {"serving", "closing"}
         /\ servers[s].inflight = 1
         /\ servers' = [servers EXCEPT ![s].inflight = 0]
    /\ UNCHANGED <<wsgiserver, greenlet, greenlets, stop_pc, stop_local, backend_stops, calls>>
    /\ UNCHANGED setupVars
    /\ UNCHANGED reqVars
    /\ UNCHANGED fieldVars

\* WSGIServer.stop(timeout), first half: the listener is closed
close_listener(srvs, s) ==
    IF srvs[s].state = "serving" THEN [srvs EXCEPT ![s].state = "closing"] ELSE srvs

\* WSGIServer.stop(timeout), second half: handlers still running when the
\* grace period ends are killed
finish_stop(srvs, s) ==
    IF srvs[s].state \in {"serving", "closing"}
    THEN [srvs EXCEPT ![s].state = "stopped", ![s].inflight = 0]
    ELSE srvs

\* a kill that leaves the greenlet running
greenlet_kill_skipped(gs, g) == gs

\* Greenlet.kill (320)
greenlet_kill(gs, g) == [gs EXCEPT ![g].state = "dead"]

\* stop, lines 315-316: the call of self.wsgiserver.stop(timeout)
StopEnter ==
    /\ stop_pc = "idle"
    /\ calls < MaxCalls
    /\ calls' = calls + 1
    /\ stop_local' = [server |-> wsgiserver, greenlet |-> 0]
    /\ IF wsgiserver # 0
       THEN /\ servers' = close_listener(servers, wsgiserver)
            /\ stop_pc' = "server_stopping"
       ELSE /\ stop_pc' = "kill_greenlet"
            /\ UNCHANGED servers
    /\ UNCHANGED <<wsgiserver, greenlet, greenlets, backend_stops>>
    /\ UNCHANGED setupVars
    /\ UNCHANGED reqVars
    /\ UNCHANGED fieldVars

\* stop, lines 316-317: wsgiserver.stop(timeout) returns, the field is cleared
StopServerStopped ==
    /\ stop_pc = "server_stopping"
    /\ servers' = finish_stop(servers, stop_local.server)
    /\ wsgiserver' = 0
    /\ stop_pc' = "kill_greenlet"
    /\ UNCHANGED <<greenlet, greenlets, stop_local, backend_stops, calls>>
    /\ UNCHANGED setupVars
    /\ UNCHANGED reqVars
    /\ UNCHANGED fieldVars

\* stop, lines 319-320: a greenlet killed inside serve_forever stops its
\* server on the way out
StopKillGreenlet ==
    /\ stop_pc = "kill_greenlet"
    /\ stop_local' = [stop_local EXCEPT !.greenlet = greenlet]
    /\ IF greenlet # 0
       THEN /\ greenlets' = greenlet_kill(greenlets, greenlet)
            /\ servers' = IF greenlets[greenlet].state = "serving"
                          THEN finish_stop(servers, greenlets[greenlet].server)
                          ELSE servers
       ELSE UNCHANGED <<greenlets, servers>>
    /\ stop_pc' = "rest_stop"
    /\ UNCHANGED <<wsgiserver, greenlet, backend_stops, calls>>
    /\ UNCHANGED setupVars
    /\ UNCHANGED reqVars
    /\ UNCHANGED fieldVars

\* stop, line 322: rest_api.stop()
StopBackend ==
    /\ stop_pc = "rest_stop"
    /\ backend_stops' = backend_stops + 1
    /\ stop_pc' = "idle"
    /\ UNCHANGED <<wsgiserver, greenlet, servers, greenlets, stop_local, calls>>
    /\ UNCHANGED setupVars
    /\ UNCHANGED reqVars
    /\ UNCHANGED fieldVars

(***************************************************************************)
(* Initial states and specifications                                       *)
(***************************************************************************)
NoRequest ==
    /\ req = IdleReq
    /\ response = NoResponse
    /\ handler_calls = 0
    /\ ens_calls = <<>>
    /\ log_records = <<>>
    /\ served = 0

NoServer ==
    /\ wsgiserver = 0
    /\ greenlet = 0
    /\ servers = <<>>
    /\ greenlets = <<>>
    /\ stop_pc = "idle"
    /\ stop_local = [server |-> 0, greenlet |-> 0]
    /\ backend_stops = 0
    /\ calls = 0

\* no field, validator or url map call is being followed
NoFieldCall ==
    /\ field_call = [fn |-> "none"]
    /\ field_result = [outcome |-> "none"]
    /\ reqs = <<>>
    /\ clock = 0

\* the state APIServer.__init__ leaves for a one-route table
Constructed ==
    /\ urls = << <<"/a", <<"P", "r">>>> >>
    /\ rest_api = "rest_api_1"
    /\ init_pc = "constructed"
    /\ url_idx = 2
    /\ flask_api_context = AddResource(<<>>, <<"P", "r">>, "/a",
                                       ResourceClassKwargs("rest_api_1"),
                                       EndpointOf(<<"/a", <<"P", "r">>>>))
    /\ self_rest_api = "rest_api_1"
    /\ view_functions = { EndpointOf(<<"/a", <<"P", "r">>>>) }
    /\ error_handlers = { [on |-> "404", handler |-> "endpoint_not_found"],
                          [on |-> "Exception", handler |-> "unhandled_exception"] }
    /\ init_exc = NoExc

\* APIServer(rest_api) is being constructed over a bounded route table
InitSetup ==
    /\ urls \in SeqsUpTo(UrlTuples, MaxUrls) \cup { ShippedUrls }
    /\ rest_api \in RestApiObjects
    /\ init_pc = "setup_urls"
    /\ url_idx = 1
    /\ flask_api_context = <<>>
    /\ self_rest_api = None
    /\ view_functions = {}
    /\ error_handlers = {}
    /\ init_exc = NoExc
    /\ NoRequest
    /\ listening = FALSE
    /\ NoServer
    /\ NoFieldCall

NextSetup ==
    \/ SetupUrlsStep
    \/ InitAssignFields
    \/ RegisterBlueprint
    \/ InstallErrorHandlers

SpecSetup == InitSetup /\ [][NextSetup]_vars

\* a constructed server whose greenlet is serving
Init ==
    /\ Constructed
    /\ NoRequest
    /\ listening = TRUE
    /\ wsgiserver = 1
    /\ greenlet = 1
    /\ servers = << [state |-> "serving", port |-> 4242, inflight |-> 0, by |-> 1] >>
    /\ greenlets = << [state |-> "serving", port |-> 4242, server |-> 1] >>
    /\ stop_pc = "idle"
    /\ stop_local = [server |-> 0, greenlet |-> 0]
    /\ backend_stops = 0
    /\ calls = 0
    /\ NoFieldCall

Next ==
    \/ ReceiveRequest
    \/ RouteNotFound
    \/ DeserializeFields
    \/ ValidateSchema
    \/ TransformStep
    \/ TransformReturn
    \/ ParsingError
    \/ InvokeHandler
    \/ UnhandledException
    \/ FinishRequest

Spec == Init /\ [][Next]_vars

\* a constructed server before any start(), run() or stop()
InitServer ==
    /\ Constructed
    /\ NoRequest
    /\ listening = FALSE
    /\ NoServer
    /\ NoFieldCall

NextServer ==
    \/ Start
    \/ Run
    \/ GreenletRun
    \/ GreenletExit
    \/ ConnectionAccepted
    \/ HandlerFinished
    \/ StopEnter
    \/ StopServerStopped
    \/ StopKillGreenlet
    \/ StopBackend

SpecServer == InitServer /\ [][NextServer]_vars

(***************************************************************************)
(* Typed fields and validators (encoding.py 157-339, 593-652, 854-885,     *)
(* 1457-1498).  A value handed to a field is the Python object webargs     *)
(* took from the JSON body, the query string or the uploaded form.         *)
(***************************************************************************)
MaxText == 3        \* longest text explored over TextChars
MaxInt == 3         \* largest magnitude of an integer or float input

TextChars == { "-", ".", "0", "1", "2", "x" }
\* the decimal digits, in order of their value
AllDigits == << "0", "1", "2", "3", "4", "5", "6", "7", "8", "9" >>
Digits == { AllDigits[k] : k \in 1..10 }

\* texts longer than MaxText that the fields are known to meet
ExtraTexts ==
    { <<"0", ".", "0", "0", "0", "0", "0", "0", "0", "1">>,
      <<"1", "0", "0", ".", "1">> }

Texts == SeqsUpTo(TextChars, MaxText) \cup ExtraTexts

PyStr(s) == [py |-> "str", s |-> s]
PyInt(n) == [py |-> "int", v |-> n]
PyBool(b) == [py |-> "bool", v |-> b]
\* a float is kept by its shortest decimal spelling: m / 10^e
PyFloat(m, e) == [py |-> "float", m |-> m, e |-> e]
PyList == [py |-> "list"]

\* what a JSON body or a query string can put in front of a scalar field
FieldValues ==
    { PyStr(s) : s \in Texts }
    \cup { PyInt(n) : n \in (-MaxInt..MaxInt) \cup {100, 101} }
    \cup { PyFloat(m, 1) : m \in { -15, -5, 5, 15, 1001 } }
    \cup { PyBool(b) : b \in BOOLEAN }
    \cup { PyList }

RECURSIVE Pow10(_)
Pow10(n) == IF n = 0 THEN 1 ELSE 10 * Pow10(n - 1)

DigitVal(c) == (CHOOSE k \in 1..10 : AllDigits[k] = c) - 1

IsDigits(s) == \A k \in 1..Len(s) : s[k] \in Digits

RECURSIVE DigitsValue(_)
DigitsValue(s) ==
    IF Len(s) = 0 THEN 0
    ELSE 10 * DigitsValue(SubSeq(s, 1, Len(s) - 1)) + DigitVal(s[Len(s)])

HasSign(s) == Len(s) > 0 /\ s[1] = "-"
Unsigned(s) == IF HasSign(s) THEN Tail(s) ELSE s

\* the builtin int(): an int is itself, a bool is 0 or 1, a float is
\* truncated towards zero, a text is an optional sign and decimal digits or
\* a ValueError, any other object a TypeError
int(value) ==
    CASE value.py = "int" -> [exc |-> "none", v |-> value.v]
      [] value.py = "bool" -> [exc |-> "none", v |-> IF value.v THEN 1 ELSE 0]
      [] value.py = "float" ->
            [exc |-> "none",
             v |-> IF value.m >= 0 THEN value.m \div Pow10(value.e)
                   ELSE -((-value.m) \div Pow10(value.e))]
      [] value.py = "str" ->
            LET digits == Unsigned(value.s)
            IN  IF Len(digits) > 0 /\ IsDigits(digits)
                THEN [exc |-> "none",
                      v |-> IF HasSign(value.s) THEN -DigitsValue(digits)
                            ELSE DigitsValue(digits)]
                ELSE [exc |-> "ValueError"]
      [] OTHER -> [exc |-> "TypeError"]

\* decimal.Decimal of a text: an optional sign, digits with at most one
\* point and at least one digit, and an optional exponent 'E' with its own
\* sign and digits; the value is m / 10^e
DecimalOfText(s) ==
    LET body == Unsigned(s)
        es == { k \in 1..Len(body) : body[k] = "E" }
        epos == IF es = {} THEN Len(body) + 1 ELSE CHOOSE k \in es : TRUE
        mantissa == SubSeq(body, 1, epos - 1)
        exptext == SubSeq(body, epos + 1, Len(body))
        expdigits == Unsigned(exptext)
        dots == { k \in 1..Len(mantissa) : mantissa[k] = "." }
        dot == IF dots = {} THEN Len(mantissa) + 1 ELSE CHOOSE k \in dots : TRUE
        whole == SubSeq(mantissa, 1, dot - 1)
        frac == SubSeq(mantissa, dot + 1, Len(mantissa))
    IN  IF /\ Cardinality(dots) <= 1 /\ IsDigits(whole) /\ IsDigits(frac)
           /\ Len(whole) + Len(frac) > 0
           /\ Cardinality(es) <= 1
           /\ es # {} => (Len(expdigits) > 0 /\ IsDigits(expdigits))
        THEN LET coefficient == IF HasSign(s) THEN -DigitsValue(whole \o frac)
                                ELSE DigitsValue(whole \o frac)
                 exponent == IF es = {} THEN 0
                             ELSE IF HasSign(exptext) THEN -DigitsValue(expdigits)
                             ELSE DigitsValue(expdigits)
                 e == Len(frac) - exponent
             IN  IF e >= 0 THEN [exc |-> "none", m |-> coefficient, e |-> e]
                 ELSE [exc |-> "none", m |-> coefficient * Pow10(-e), e |-> 0]
        ELSE [exc |-> "ValueError"]

\* FVal(value): the arbitrary-precision decimal of a text, an int or a
\* float; a ValueError for anything else
FVal(value) ==
    CASE value.py = "str" -> DecimalOfText(value.s)
      [] value.py = "int" -> [exc |-> "none", m |-> value.v, e |-> 0]
      [] value.py = "float" -> [exc |-> "none", m |-> value.m, e |-> value.e]
      [] OTHER -> [exc |-> "ValueError"]

ZERO == [m |-> 0, e |-> 0]
FValOf(r) == [m |-> r.m, e |-> r.e]

\* a < b, a <= b and a > n for decimals m / 10^e and an integer n
FValLt(a, b) == a.m * Pow10(b.e) < b.m * Pow10(a.e)
FValLe(a, b) == a.m * Pow10(b.e) <= b.m * Pow10(a.e)
FValGtInt(a, n) ==
    \/ a.m \div Pow10(a.e) > n
    \/ a.m \div Pow10(a.e) = n /\ a.m % Pow10(a.e) > 0
\* a / 100, exact in decimal arithmetic
FValDiv100(a) == [m |-> a.m, e |-> a.e + 2]

Returned(v) == [outcome |-> "returned", value |-> v]
Raised(err) == [outcome |-> "raised", err |-> err]
NoResult == [outcome |-> "none"]
IsValidationError(r) == r.outcome = "raised" /\ r.err.exc = "ValidationError"

\* a zero test that lets every negative value through
TaxFreeRejectsOnlyZero(v) == v = 0

\* lines 171-177: the two rejections of TaxFreeAfterPeriodField
TaxFreeRejected(v) == v < -1 \/ v = 0

\* TaxFreeAfterPeriodField._deserialize (encoding.py 159-179): only the
\* ValueError of int() is turned into a ValidationError
TaxFreeAfterPeriodField_deserialize(value) ==
    LET r == int(value)
    IN  IF r.exc = "ValueError"
        THEN Raised(ValidationError("taxfree_after_period", "is not a valid integer", value))
        ELSE IF r.exc = "TypeError"
        THEN Raised([exc |-> "TypeError"])
        ELSE IF TaxFreeRejected(r.v)
        THEN IF r.v < -1
             THEN Raised(ValidationError("taxfree_after_period",
                      "The taxfree_after_period value can not be negative, except for the value of -1 to disable the setting",
                      None))
             ELSE Raised(ValidationError("taxfree_after_period",
                      "The taxfree_after_period value can not be set to zero", None))
        ELSE Returned(r.v)

\* deserialize_asset_amount: FVal(amount), its ValueError raised again as a
\* DeserializationError
deserialize_asset_amount(value) ==
    LET r == FVal(value)
    IN  IF r.exc = "ValueError" THEN [exc |-> "DeserializationError"]
        ELSE [exc |-> "none", amount |-> FValOf(r)]

\* AmountField._deserialize (encoding.py 210-222)
AmountField_deserialize(value) ==
    LET r == deserialize_asset_amount(value)
    IN  IF r.exc = "DeserializationError"
        THEN Raised(ValidationError("amount", "Failed to deserialize an amount entry", value))
        ELSE Returned(r.amount)

\* the digits of a natural number
RECURSIVE DigitsOf(_)
DigitsOf(n) ==
    IF n < 10 THEN << AllDigits[n + 1] >>
    ELSE DigitsOf(n \div 10) \o << AllDigits[(n % 10) + 1] >>

Zeros(n) == [k \in 1..n |-> "0"]

\* str() of a decimal m / 10^e: the digits of the coefficient with the point
\* put in place, or scientific notation when the number starts more than
\* six places behind the point
TextOfDecimal(a) ==
    LET digits == DigitsOf(IF a.m < 0 THEN -a.m ELSE a.m)
        n == Len(digits)
        leftdigits == n - a.e
        sign == IF a.m < 0 THEN << "-" >> ELSE <<>>
    IN  IF leftdigits > -6
        THEN IF leftdigits <= 0
             THEN sign \o << "0", "." >> \o Zeros(-leftdigits) \o digits
             ELSE IF leftdigits >= n
             THEN sign \o digits
             ELSE sign \o SubSeq(digits, 1, leftdigits) \o << "." >>
                       \o SubSeq(digits, leftdigits + 1, n)
        ELSE sign \o << digits[1] >>
                  \o (IF n > 1 THEN << "." >> \o SubSeq(digits, 2, n) ELSE <<>>)
                  \o << "E", "-" >> \o DigitsOf(1 - leftdigits)

\* a serialization that keeps one digit behind the point
AmountField_serialize_one_place(value) ==
    TextOfDecimal([m |-> IF value.e <= 1 THEN value.m
                         ELSE IF value.m >= 0 THEN value.m \div Pow10(value.e - 1)
                         ELSE -((-value.m) \div Pow10(value.e - 1)),
                   e |-> IF value.e <= 1 THEN value.e ELSE 1])

\* AmountField._serialize (encoding.py 201-208): str(value)
AmountField_serialize(value) == TextOfDecimal(value)

\* a test that lets the amount zero through
NonPositiveOnlyNegative(amount) == FValLt(amount, ZERO)

\* line 235: amount <= ZERO
NonPositive(amount) == FValLe(amount, ZERO)

\* PositiveAmountField._deserialize (encoding.py 227-238)
PositiveAmountField_deserialize(value) ==
    LET r == AmountField_deserialize(value)
    IN  IF r.outcome = "raised" THEN r
        ELSE IF NonPositive(r.value)
        THEN Raised(ValidationError("amount",
                 "Non-positive amount given. Amount should be > 0", value))
        ELSE Returned(r.value)

\* a normalisation that returns the percentage as given
PercentageAsGiven(percentage) == percentage

\* line 321: percentage / FVal(100)
NormalizedPercentage(percentage) == FValDiv100(percentage)

\* FloatingPercentageField._deserialize (encoding.py 304-321)
FloatingPercentageField_deserialize(value) ==
    LET r == FVal(value)
    IN  IF r.exc = "ValueError"
        THEN Raised(ValidationError("weight", "str(ValueError)", value))
        ELSE IF FValLt(FValOf(r), ZERO)
        THEN Raised(ValidationError("weight", "Percentage field can not be negative", None))
        ELSE IF FValGtInt(FValOf(r), 100)
        THEN Raised(ValidationError("weight",
                 "Percentage field can not be greater than 100", None))
        ELSE Returned(NormalizedPercentage(FValOf(r)))

\* every spelling of the three short codes, and some other names
Casings(code) ==
    CASE code = "btc" -> { "btc", "BTC", "Btc", "bTc", "btC", "BTc", "BtC", "bTC" }
      [] code = "eth" -> { "eth", "ETH", "Eth", "eTh", "etH", "ETh", "EtH", "eTH" }
      [] code = "ksm" -> { "ksm", "KSM", "Ksm", "kSm", "ksM", "KSm", "KsM", "kSM" }
ShortCodes == { "btc", "eth", "ksm" }
CanonicalBlockchain(code) ==
    CASE code = "btc" -> BITCOIN [] code = "eth" -> ETHEREUM [] code = "ksm" -> KUSAMA
BlockchainNames ==
    UNION { Casings(code) : code \in ShortCodes }
    \cup { "xyz", "", "bitcoin", "btc ", "ETH2" }

(***************************************************************************)
(* Paths and uploaded files.  A name is a text over NameChars; the file    *)
(* system answers for a path whether it is missing, a file or a directory. *)
(***************************************************************************)
NameChars == { "a", ".", "c", "C" }
Names == SeqsUpTo(NameChars, MaxText)
FsKinds == { "missing", "file", "dir" }

\* str.endswith
EndsWith(s, x) == Len(s) >= Len(x) /\ SubSeq(s, Len(s) - Len(x) + 1, Len(s)) = x

\* PurePath.suffix: the part of the name from its last point on, unless the
\* point is the first or the last character of the name
PathSuffix(name) ==
    LET dots == { k \in 1..Len(name) : name[k] = "." }
        i == IF dots = {} THEN 0 ELSE CHOOSE k \in dots : \A j \in dots : j <= k
    IN  IF 1 < i /\ i < Len(name) THEN SubSeq(name, i, Len(name)) ELSE <<>>

FileStorage(filename) == [py |-> "FileStorage", filename |-> filename]
PathOf(value) == [py |-> "Path", s |-> value.s]

\* allowed_extensions of a FileField: None, or a sequence of extensions
NoExtensions == [given |-> FALSE, exts |-> <<>>]
Extensions(exts) == [given |-> TRUE, exts |-> exts]
AllowedExtensionSets ==
    { NoExtensions,
      Extensions(<< <<".", "c">> >>),
      Extensions(<< <<".", "a">>, <<".", "c", "c">> >>) }

\* what a request can put in front of a DirectoryField or a FileField
PathValues ==
    { PyStr(s) : s \in Names } \cup { PyInt(1), PyList }
FileValues ==
    PathValues \cup { FileStorage(n) : n \in Names }

\* DirectoryField._deserialize (encoding.py 595-609); Path() of anything but
\* a text raises TypeError
DirectoryField_deserialize(value, fs) ==
    IF value.py # "str" THEN Raised([exc |-> "TypeError"])
    ELSE IF fs = "missing"
    THEN Raised(ValidationError("directory_path", "Given path does not exist", value))
    ELSE IF fs # "dir"
    THEN Raised(ValidationError("directory_path", "Given path is not a directory", value))
    ELSE Returned(PathOf(value))

\* a match that ignores the case of the suffix
LowerName(s) == [k \in 1..Len(s) |-> IF s[k] = "C" THEN "c" ELSE s[k]]
PathExtensionAllowedAnyCase(name, allowed) ==
    \E k \in 1..Len(allowed.exts) : LowerName(PathSuffix(name)) = allowed.exts[k]

\* line 646: any(path.suffix == x for x in self.allowed_extensions)
PathExtensionAllowed(name, allowed) ==
    \E k \in 1..Len(allowed.exts) : PathSuffix(name) = allowed.exts[k]

\* line 627: any(value.filename.endswith(x) for x in self.allowed_extensions)
FilenameExtensionAllowed(name, allowed) ==
    \E k \in 1..Len(allowed.exts) : EndsWith(name, allowed.exts[k])

\* FileField._deserialize (encoding.py 618-652)
FileField_deserialize(value, allowed, fs) ==
    IF value.py = "FileStorage"
    THEN IF allowed.given /\ value.filename # <<>>
            /\ ~FilenameExtensionAllowed(value.filename, allowed)
         THEN Raised(ValidationError("file", "Given file does not end in any of",
                                     <<value.filename, allowed.exts>>))
         ELSE Returned(value)
    ELSE IF value.py # "str"
    THEN Raised(ValidationError("file", "Provided non string or file type for file", None))
    ELSE IF fs = "missing"
    THEN Raised(ValidationError("file", "Given path does not exist", value))
    ELSE IF fs # "file"
    THEN Raised(ValidationError("file", "Given path is not a file", value))
    ELSE IF allowed.given /\ ~PathExtensionAllowed(value.s, allowed)
    THEN Raised(ValidationError("file", "Given file does not end in any of",
                                <<value.s, allowed.exts>>))
    ELSE Returned(PathOf(value))

(***************************************************************************)
(* Lists of oracles (encoding.py 854-885)                                  *)
(***************************************************************************)
MaxOracles == 3     \* longest list of oracles explored

\* the members of the two oracle enumerations, in definition order
CurrentPriceOracle == << "coingecko", "cryptocompare" >>
HistoricalPriceOracle == << "manual", "coingecko", "cryptocompare" >>

Range(s) == { s[k] : k \in 1..Len(s) }

\* a test that only looks for the empty list
OracleListInvalidOnlyEmpty(oracles) == Len(oracles) = 0

\* lines 858-861 and 875-878: empty, or shorter as a set than as a list
OracleListInvalid(oracles) ==
    Len(oracles) = 0 \/ Len(oracles) # Cardinality(Range(oracles))

\* _validate_current_price_oracles (encoding.py 854-868)
validate_current_price_oracles(current_price_oracles) ==
    IF OracleListInvalid(current_price_oracles)
    THEN Raised(ValidationError("current_price_oracles",
                                "Invalid current price oracles in",
                                <<current_price_oracles, CurrentPriceOracle>>))
    ELSE Returned(None)

\* _validate_historical_price_oracles (encoding.py 871-885)
validate_historical_price_oracles(historical_price_oracles) ==
    IF OracleListInvalid(historical_price_oracles)
    THEN Raised(ValidationError("historical_price_oracles",
                                "Invalid historical price oracles in",
                                <<historical_price_oracles, HistoricalPriceOracle>>))
    ELSE Returned(None)

(***************************************************************************)
(* EthereumTokenSchema (encoding.py 1457-1498): the load of the field      *)
(* underlying_tokens and the validation of the whole schema.               *)
(***************************************************************************)
MaxUnderlying == 2  \* longest list of underlying tokens explored
MaxModules == 2     \* longest active_modules list explored

\* the weights a request may give, as percentages
RawWeights ==
    { PyInt(n) : n \in { -1, 0, 50, 70, 100, 101 } }
    \cup { PyFloat(333, 1), PyStr(<<"2", "0">>), PyStr(<<"x">>) }

\* underlying_tokens as given: left out, null, or a list of entries
RawUnderlyingTokens ==
    { [given |-> "omitted", list |-> <<>>], [given |-> "null", list |-> <<>>] }
    \cup { [given |-> "list", list |-> l] : l \in SeqsUpTo(RawWeights, MaxUnderlying) }

FValAdd(a, b) ==
    LET e == IF a.e >= b.e THEN a.e ELSE b.e
    IN  [m |-> a.m * Pow10(e - a.e) + b.m * Pow10(e - b.e), e |-> e]

\* sum(x['weight'] for x in given_underlying_tokens), from the int 0
RECURSIVE WeightSum(_)
WeightSum(weights) ==
    IF Len(weights) = 0 THEN ZERO
    ELSE FValAdd(WeightSum(SubSeq(weights, 1, Len(weights) - 1)), weights[Len(weights)])

\* a limit test that also refuses a sum of exactly 1
WeightSumExceedsOrEqual(weight_sum) == ~FValLt(weight_sum, [m |-> 1, e |-> 0])

\* line 1493: weight_sum > FVal(1)
WeightSumExceeds(weight_sum) == FValGtInt(weight_sum, 1)

\* validate_ethereum_token_schema (encoding.py 1480-1498); underlying_tokens
\* is None when the field was left out or given as null (missing=None)
validate_ethereum_token_schema(data) ==
    IF data.underlying_tokens.none THEN Returned(None)
    ELSE IF data.underlying_tokens.list = <<>>
    THEN Raised(ValidationError("_schema",
             "Gave an empty list for underlying tokens. If you need to specify no underlying tokens give a null value",
             data.address))
    ELSE IF WeightSumExceeds(WeightSum(data.underlying_tokens.list))
    THEN Raised(ValidationError("_schema",
             "The sum of underlying token weights exceeds 100%", data.address))
    ELSE Returned(None)

\* the load of underlying_tokens by EthereumTokenSchema (lines 1457-1459,
\* 1478): each weight goes through FloatingPercentageField; a field error
\* ends the load before the schema validator runs
EthereumTokenSchema_load(raw) ==
    IF raw.given # "list"
    THEN validate_ethereum_token_schema(
             [address |-> "0xToken", underlying_tokens |-> [none |-> TRUE, list |-> <<>>]])
    ELSE LET loaded == [k \in 1..Len(raw.list) |->
                            FloatingPercentageField_deserialize(raw.list[k])]
         IN  IF \E k \in 1..Len(raw.list) : loaded[k].outcome = "raised"
             THEN loaded[CHOOSE k \in 1..Len(raw.list) : loaded[k].outcome = "raised"]
             ELSE validate_ethereum_token_schema(
                      [address |-> "0xToken",
                       underlying_tokens |->
                           [none |-> FALSE,
                            list |-> [k \in 1..Len(raw.list) |-> loaded[k].value]]])

\* the literal segments that occur in the table
Literals ==
    UNION { { URLS_V1[i].segs[k].text :
                k \in { j \in 1..Len(URLS_V1[i].segs) : URLS_V1[i].segs[j].kind = "lit" } } :
            i \in 1..Len(URLS_V1) }

\* a segment of a concrete request path: every literal of the table, a text
\* that is no literal, a decimal number, and the empty segment
SegValues ==
    { [text |-> t, numeric |-> FALSE] : t \in Literals \cup { "other", "" } }
    \cup { [text |-> "7", numeric |-> TRUE] }

\* werkzeug's match of one segment: a literal matches itself, <string:x> a
\* non-empty text without '/', <int:x> decimal digits
SegmentMatches(seg, v) ==
    CASE seg.kind = "lit" -> v.text = seg.text
      [] seg.kind = "string" -> v.text # ""
      [] seg.kind = "int" -> v.numeric

\* a match that is content with a rule that spells a prefix of the path
RuleMatchesPrefix(rule, path) ==
    /\ Len(rule.segs) <= Len(path.segs)
    /\ \A k \in 1..Len(rule.segs) : SegmentMatches(rule.segs[k], path.segs[k])

\* a rule matches a path segment by segment; a rule that ends in '/' also
\* answers the path without it (by a redirect to the path with it)
RuleMatches(rule, path) ==
    /\ Len(rule.segs) = Len(path.segs)
    /\ \A k \in 1..Len(rule.segs) : SegmentMatches(rule.segs[k], path.segs[k])
    /\ (rule.slash = path.slash \/ (rule.slash /\ ~path.slash))

\* the rules of the table that match a path
MatchingRules(path) == { i \in 1..Len(URLS_V1) : RuleMatches(URLS_V1[i], path) }

\* the paths got from a rule by putting a segment value in place of each
\* converter
RECURSIVE InstancesOf(_)
InstancesOf(segs) ==
    IF Len(segs) = 0 THEN { <<>> }
    ELSE LET firsts == IF segs[1].kind = "lit"
                       THEN { [text |-> segs[1].text, numeric |-> FALSE] }
                       ELSE SegValues
         IN  { <<v>> \o rest : v \in firsts, rest \in InstancesOf(Tail(segs)) }

\* the request paths below the prefix that are explored
ConcretePaths ==
    { [segs |-> s, slash |-> b] :
        s \in UNION { InstancesOf(URLS_V1[i].segs) : i \in 1..Len(URLS_V1) }
              \cup { << [text |-> "other", numeric |-> FALSE] >> },
        b \in BOOLEAN }

(***************************************************************************)
(* One call of a field, a validator or the url map                          *)
(***************************************************************************)
\* the scalar inputs of FloatingPercentageField: every field value whose
\* hundredth still has a coefficient and exponent the model can compare
PercentageValues ==
    FieldValues \ { PyStr(<<"0", ".", "0", "0", "0", "0", "0", "0", "0", "1">>) }

(***************************************************************************)
(* Schemas with a whole-schema validator: UserActionSchema (999-1029) and  *)
(* ModifiableSettingsSchema (888-989).  A load deserializes every field,   *)
(* and only when no field failed runs the validates_schema hook and then   *)
(* the post_load hook (marshmallow skips both on field errors).            *)
(***************************************************************************)
Omitted == [given |-> "omitted", s |-> ""]
Null == [given |-> "null", s |-> ""]
Str(s) == [given |-> "str", s |-> s]
NotAString == [given |-> "int", s |-> "1"]

Required == [given |-> "required", s |-> ""]
AnyString == {}

\* fields.String(required=..., missing=..., validate=OneOf(choices)): a field
\* declared with missing=None lets null through, and null skips the validator
fields_String(raw, missing, choices) ==
    IF raw = Omitted
    THEN IF missing = Required
         THEN [ok |-> FALSE, message |-> "Missing data for required field."]
         ELSE [ok |-> TRUE, value |-> missing]
    ELSE IF raw = Null
    THEN IF missing = Null THEN [ok |-> TRUE, value |-> Null]
         ELSE [ok |-> FALSE, message |-> "Field may not be null."]
    ELSE IF raw.given # "str" THEN [ok |-> FALSE, message |-> "Not a valid string."]
    ELSE IF choices # AnyString /\ raw.s \notin choices
    THEN [ok |-> FALSE, message |-> "Must be one of the choices."]
    ELSE [ok |-> TRUE, value |-> raw]

FieldErrors(loaded) ==
    [exc |-> "ValidationError", field |-> "fields",
     message |-> [f \in { g \in DOMAIN loaded : ~loaded[g].ok } |-> loaded[f].message]]

\* a password test that does not look at the action
PasswordNeededForAnyAction(data) == data.password = Null

\* lines 1022-1023
LoginWithoutPassword(data) == data.action = Str("login") /\ data.password = Null

\* UserActionSchema.validate_user_action_schema (1016-1029)
validate_user_action_schema(data) ==
    IF LoginWithoutPassword(data)
    THEN Raised(ValidationError("_schema", "Missing password field for login", None))
    ELSE IF data.action = Null
            /\ (data.premium_api_key = Str("") \/ data.premium_api_secret = Str(""))
    THEN Raised(ValidationError("_schema",
             "Without an action premium api key and secret must be provided", None))
    ELSE Returned(data)

\* the fields of UserActionSchema (1000-1014)
UserActionSchema_fields(raw) ==
    [name |-> fields_String(raw.name, Required, AnyString),
     password |-> fields_String(raw.password, Null, AnyString),
     sync_approval |-> fields_String(raw.sync_approval, Str("unknown"),
                                     { "unknown", "yes", "no" }),
     action |-> fields_String(raw.action, Null, { "login", "logout" }),
     premium_api_key |-> fields_String(raw.premium_api_key, Str(""), AnyString),
     premium_api_secret |-> fields_String(raw.premium_api_secret, Str(""), AnyString)]

UserActionSchema_load(raw) ==
    LET loaded == UserActionSchema_fields(raw)
    IN  IF \E f \in DOMAIN loaded : ~loaded[f].ok THEN Raised(FieldErrors(loaded))
        ELSE validate_user_action_schema([f \in DOMAIN loaded |-> loaded[f].value])

UserActionRequests ==
    [name : { Omitted, Str("user") },
     password : { Omitted, Null, Str("pw"), NotAString },
     sync_approval : { Omitted, Str("yes"), Str("maybe") },
     action : { Omitted, Null, Str("login"), Str("logout"), Str("register") },
     premium_api_key : { Omitted, Str(""), Str("key") },
     premium_api_secret : { Omitted, Str(""), Str("secret") }]

\* the keys of rotkehlchen.chain.ethereum.modules.AVAILABLE_MODULES_MAP
AVAILABLE_MODULES_MAP == { "aave", "compound", "makerdao_dsr", "uniswap" }

ModuleNames == { "aave", "uniswap", "foo", "bar" }

\* active_modules as given: left out, null, something that is no list, or a
\* list of strings and other values
RawActiveModules ==
    { [given |-> "omitted", list |-> <<>>], [given |-> "null", list |-> <<>>],
      [given |-> "str", list |-> <<>>] }
    \cup { [given |-> "list", list |-> l] :
             l \in SeqsUpTo({ Str(m) : m \in ModuleNames } \cup { NotAString }, MaxModules) }

SettingsRequests ==
    [active_modules : RawActiveModules,
     taxfree_after_period : { Omitted } \cup { PyInt(n) : n \in { -1, 0, 2 } }]

\* active_modules = fields.List(fields.String(), missing=None)   (line 921)
active_modules_field(raw) ==
    IF raw.given \in { "omitted", "null" }
    THEN [ok |-> TRUE, value |-> [none |-> TRUE, list |-> <<>>]]
    ELSE IF raw.given # "list" THEN [ok |-> FALSE, message |-> "Not a valid list."]
    ELSE IF \E k \in 1..Len(raw.list) : raw.list[k].given # "str"
    THEN [ok |-> FALSE, message |-> "Not a valid string."]
    ELSE [ok |-> TRUE,
          value |-> [none |-> FALSE, list |-> [k \in 1..Len(raw.list) |-> raw.list[k].s]]]

\* taxfree_after_period = TaxFreeAfterPeriodField(missing=None)   (line 903)
taxfree_after_period_field(raw) ==
    IF raw = Omitted THEN [ok |-> TRUE, value |-> Null]
    ELSE LET r == TaxFreeAfterPeriodField_deserialize(raw)
         IN  IF r.outcome = "returned" THEN [ok |-> TRUE, value |-> r.value]
             ELSE [ok |-> FALSE, message |-> r.err.message[1]]

\* a membership test that knows every name
AnyModule(module) == TRUE

\* line 954: module in AVAILABLE_MODULES_MAP
AvailableModule(module) == module \in AVAILABLE_MODULES_MAP

\* ModifiableSettingsSchema.validate_settings_schema (946-958): the loop
\* raises at the first module that is not in the map
validate_settings_schema(data) ==
    IF data.active_modules.none THEN Returned(None)
    ELSE LET unknown == { k \in 1..Len(data.active_modules.list) :
                            ~AvailableModule(data.active_modules.list[k]) }
         IN  IF unknown = {} THEN Returned(None)
             ELSE Raised(ValidationError("active_modules", "is not a valid module",
                      data.active_modules.list[CHOOSE k \in unknown :
                                                   \A j \in unknown : k <= j]))

\* ModifiableSettingsSchema.transform_data (960-989), the two fields kept
ModifiableDBSettings(data) ==
    [type |-> "ModifiableDBSettings", active_modules |-> data.active_modules,
     taxfree_after_period |-> data.taxfree_after_period]

ModifiableSettingsSchema_load(raw) ==
    LET loaded == [active_modules |-> active_modules_field(raw.active_modules),
                   taxfree_after_period |->
                       taxfree_after_period_field(raw.taxfree_after_period)]
        data == [f \in DOMAIN loaded |-> loaded[f].value]
    IN  IF \E f \in DOMAIN loaded : ~loaded[f].ok THEN Raised(FieldErrors(loaded))
        ELSE IF validate_settings_schema(data).outcome = "raised"
        THEN validate_settings_schema(data)
        ELSE Returned(ModifiableDBSettings(data))


FieldCalls ==
    [fn : { "TaxFreeAfterPeriodField", "AmountField", "PositiveAmountField" },
     value : FieldValues]
    \cup [fn : { "FloatingPercentageField" }, value : PercentageValues]
    \cup [fn : { "BlockchainField" }, value : BlockchainNames]
    \cup [fn : { "DirectoryField" }, value : PathValues, fs : FsKinds]
    \cup [fn : { "FileField" }, value : FileValues, fs : FsKinds,
          allowed_extensions : AllowedExtensionSets]
    \cup [fn : { "_validate_current_price_oracles" },
          value : SeqsUpTo(Range(CurrentPriceOracle), MaxOracles)]
    \cup [fn : { "_validate_historical_price_oracles" },
          value : SeqsUpTo(Range(HistoricalPriceOracle), MaxOracles)]
    \cup [fn : { "EthereumTokenSchema" }, value : RawUnderlyingTokens]
    \cup [fn : { "UserActionSchema" }, value : UserActionRequests]
    \cup [fn : { "ModifiableSettingsSchema" }, value : SettingsRequests]

Pending(fn) == field_call.fn = fn /\ field_result = NoResult

Answer(result) ==
    /\ field_result' = result
    /\ UNCHANGED <<field_call, reqs, clock>>
    /\ UNCHANGED setupVars
    /\ UNCHANGED reqVars
    /\ UNCHANGED serverVars

DeserializeTaxFreeAfterPeriod ==
    /\ Pending("TaxFreeAfterPeriodField")
    /\ Answer(TaxFreeAfterPeriodField_deserialize(field_call.value))

DeserializeAmount ==
    /\ Pending("AmountField")
    /\ Answer(AmountField_deserialize(field_call.value))

\* the amount just deserialized is serialized for a response
SerializeAmount ==
    /\ field_call.fn = "AmountField"
    /\ field_result.outcome = "returned"
    /\ field_call' = [fn |-> "AmountField._serialize", value |-> field_result.value,
                      given |-> field_call.value]
    /\ field_result' = Returned(PyStr(AmountField_serialize(field_result.value)))
    /\ UNCHANGED <<reqs, clock>>
    /\ UNCHANGED setupVars
    /\ UNCHANGED reqVars
    /\ UNCHANGED serverVars

DeserializePositiveAmount ==
    /\ Pending("PositiveAmountField")
    /\ Answer(PositiveAmountField_deserialize(field_call.value))

DeserializeFloatingPercentage ==
    /\ Pending("FloatingPercentageField")
    /\ Answer(FloatingPercentageField_deserialize(field_call.value))

DeserializeBlockchain ==
    /\ Pending("BlockchainField")
    /\ LET r == BlockchainField_deserialize(field_call.value)
       IN  Answer(IF r.ok THEN Returned(r.value) ELSE Raised(r.err))

DeserializeDirectory ==
    /\ Pending("DirectoryField")
    /\ Answer(DirectoryField_deserialize(field_call.value, field_call.fs))

DeserializeFile ==
    /\ Pending("FileField")
    /\ Answer(FileField_deserialize(field_call.value, field_call.allowed_extensions,
                                    field_call.fs))

ValidateCurrentPriceOracles ==
    /\ Pending("_validate_current_price_oracles")
    /\ Answer(validate_current_price_oracles(field_call.value))

ValidateHistoricalPriceOracles ==
    /\ Pending("_validate_historical_price_oracles")
    /\ Answer(validate_historical_price_oracles(field_call.value))

LoadEthereumToken ==
    /\ Pending("EthereumTokenSchema")
    /\ Answer(EthereumTokenSchema_load(field_call.value))

LoadUserAction ==
    /\ Pending("UserActionSchema")
    /\ Answer(UserActionSchema_load(field_call.value))

LoadModifiableSettings ==
    /\ Pending("ModifiableSettingsSchema")
    /\ Answer(ModifiableSettingsSchema_load(field_call.value))

MatchUrl ==
    /\ Pending("url_map")
    /\ Answer(Returned(MatchingRules(field_call.value)))

\* a field or a validator is about to be given one value
InitFields ==
    /\ Constructed
    /\ NoRequest
    /\ listening = FALSE
    /\ NoServer
    /\ field_call \in FieldCalls
    /\ field_result = NoResult
    /\ reqs = <<>>
    /\ clock = 0

NextFields ==
    \/ DeserializeTaxFreeAfterPeriod
    \/ DeserializeAmount
    \/ SerializeAmount
    \/ DeserializePositiveAmount
    \/ DeserializeFloatingPercentage
    \/ DeserializeBlockchain
    \/ DeserializeDirectory
    \/ DeserializeFile
    \/ ValidateCurrentPriceOracles
    \/ ValidateHistoricalPriceOracles
    \/ LoadEthereumToken
    \/ LoadUserAction
    \/ LoadModifiableSettings

SpecFields == InitFields /\ [][NextFields]_vars

\* the url map is about to be asked for one request path
InitRoutes ==
    /\ Constructed
    /\ NoRequest
    /\ listening = FALSE
    /\ NoServer
    /\ field_call \in { [fn |-> "url_map", value |-> p] : p \in ConcretePaths }
    /\ field_result = NoResult
    /\ reqs = <<>>
    /\ clock = 0

NextRoutes == MatchUrl

SpecRoutes == InitRoutes /\ [][NextRoutes]_vars

(***************************************************************************)
(* Requests validated side by side (encoding.py 1184-1433).  Each request  *)
(* is parsed in its own greenlet; gevent switches greenlets when one       *)
(* blocks, as in ethereum.ens_lookup.  Every step below is one request's,  *)
(* and the steps of the two requests interleave freely.                    *)
(***************************************************************************)
RequestIds == { 1, 2 }

ConcurrentAddresses ==
    { [kind |-> "hex", id |-> 1, form |-> "lower"],
      [kind |-> "ens", id |-> 1, form |-> "name"] }

NewRequest(schema, rb, addrs) ==
    [phase |-> "received", schema |-> schema, raw_blockchain |-> rb,
     given_accounts |-> AccountsOf(schema, addrs), accounts |-> AccountsOf(schema, addrs),
     blockchain |-> None, idx |-> 0, out |-> <<>>, err |-> NoErr, answers |-> <<>>]

ConcurrentRequests ==
    { NewRequest(schema, rb, addrs) :
        schema \in { "patch", "delete" }, rb \in { "ETH", "btc", "xyz" },
        addrs \in SeqsUpTo(ConcurrentAddresses, MaxAccounts) }

\* the addresses the requests other than i have put through validation
SeenByOthers(i) ==
    UNION { { address_getter(reqs[j].schema, reqs[j].given_accounts[k]) :
                k \in 1..Len(reqs[j].given_accounts) } :
            j \in { q \in RequestIds \ {i} :
                      reqs[q].phase \in { "transforming", "ens_wait", "loaded" } } }

\* a set of seen addresses that outlives the call
GivenAddressesKeptAcrossCalls(seen_by_others) == seen_by_others

\* line 1190: given_addresses = set(), a local of every call
GivenAddressesAtEntry(seen_by_others) == {}

OnlyRequest(i, r) ==
    /\ reqs' = [reqs EXCEPT ![i] = r]
    /\ UNCHANGED <<field_call, field_result, clock>>
    /\ UNCHANGED setupVars
    /\ UNCHANGED serverVars
    /\ UNCHANGED <<req, response, handler_calls, log_records, served, listening>>

\* one account transformed with the resolver's answer (1366-1391, 1415-1433)
Transformed(r, resolved) ==
    LET given_address == address_getter(r.schema, r.accounts[r.idx])
        t == transform_address(r.blockchain, given_address, resolved)
    IN  IF ~t.ok THEN [r EXCEPT !.phase = "invalid", !.err = t.err]
        ELSE IF r.schema = "delete"
        THEN [r EXCEPT !.phase = "transforming", !.out = Append(@, t.address),
                       !.idx = @ + 1]
        ELSE [r EXCEPT !.phase = "transforming", !.accounts[r.idx].address = t.address,
                       !.idx = @ + 1]

ConcurrentDeserializeFields ==
    \E i \in RequestIds :
        /\ reqs[i].phase = "received"
        /\ LET f == BlockchainField_deserialize(reqs[i].raw_blockchain)
           IN  OnlyRequest(i, IF f.ok
                              THEN [reqs[i] EXCEPT !.phase = "fields_ok",
                                                   !.blockchain = f.value]
                              ELSE [reqs[i] EXCEPT !.phase = "invalid", !.err = f.err])
        /\ UNCHANGED ens_calls

ConcurrentValidateSchema ==
    \E i \in RequestIds :
        /\ reqs[i].phase = "fields_ok"
        /\ LET e == ValidateFrom(reqs[i].blockchain, reqs[i].accounts, reqs[i].schema,
                                 1, GivenAddressesAtEntry(SeenByOthers(i)))
           IN  OnlyRequest(i, IF e = NoErr
                              THEN [reqs[i] EXCEPT !.phase = "transforming", !.idx = 1]
                              ELSE [reqs[i] EXCEPT !.phase = "invalid", !.err = e])
        /\ UNCHANGED ens_calls

\* an account that needs no lookup is transformed without a switch
ConcurrentTransformLocal ==
    \E i \in RequestIds :
        /\ reqs[i].phase = "transforming"
        /\ reqs[i].idx <= Len(reqs[i].accounts)
        /\ ~CallsEnsLookup(reqs[i].blockchain,
                           address_getter(reqs[i].schema, reqs[i].accounts[reqs[i].idx]))
        /\ OnlyRequest(i, Transformed(reqs[i], NoneValue))
        /\ UNCHANGED ens_calls

\* the greenlet enters ethereum.ens_lookup and blocks on the network
ConcurrentEnsLookupCall ==
    \E i \in RequestIds :
        /\ reqs[i].phase = "transforming"
        /\ reqs[i].idx <= Len(reqs[i].accounts)
        /\ CallsEnsLookup(reqs[i].blockchain,
                          address_getter(reqs[i].schema, reqs[i].accounts[reqs[i].idx]))
        /\ OnlyRequest(i, [reqs[i] EXCEPT !.phase = "ens_wait"])
        /\ ens_calls' = Append(ens_calls, [request |-> i, event |-> "call"])

\* the lookup answers and the greenlet goes on with the transformation
ConcurrentEnsLookupReturn ==
    \E i \in RequestIds :
        /\ reqs[i].phase = "ens_wait"
        /\ \E resolved \in EnsResults(reqs[i].blockchain) :
              OnlyRequest(i, Transformed([reqs[i] EXCEPT !.answers = Append(@, resolved)],
                                         resolved))
        /\ ens_calls' = Append(ens_calls, [request |-> i, event |-> "return"])

ConcurrentTransformReturn ==
    \E i \in RequestIds :
        /\ reqs[i].phase = "transforming"
        /\ reqs[i].idx > Len(reqs[i].accounts)
        /\ OnlyRequest(i, [reqs[i] EXCEPT !.phase = "loaded",
                              !.accounts = IF reqs[i].schema = "delete"
                                           THEN reqs[i].out ELSE @])
        /\ UNCHANGED ens_calls

\* two requests have been received and are about to be parsed
InitConcurrent ==
    /\ Constructed
    /\ NoRequest
    /\ listening = TRUE
    /\ NoServer
    /\ field_call = [fn |-> "none"]
    /\ field_result = NoResult
    /\ reqs \in [RequestIds -> ConcurrentRequests]
    /\ clock = 0

NextConcurrent ==
    \/ ConcurrentDeserializeFields
    \/ ConcurrentValidateSchema
    \/ ConcurrentTransformLocal
    \/ ConcurrentEnsLookupCall
    \/ ConcurrentEnsLookupReturn
    \/ ConcurrentTransformReturn

SpecConcurrent == InitConcurrent /\ [][NextConcurrent]_vars

(***************************************************************************)
(* The time-range schemas (encoding.py 730-754, 1106-1122): from_timestamp *)
(* and to_timestamp are TimestampFields (123-137) with defaults.  The      *)
(* wall clock advances between the loads of the requests.                  *)
(***************************************************************************)
MaxClock == 2       \* latest reading of the wall clock explored

TimeRangeSchemas ==
    { "AsyncHistoricalQuerySchema", "EthereumTransactionQuerySchema",
      "TimerangeLocationQuerySchema", "StatisticsAssetBalanceSchema",
      "HistoryProcessingSchema" }

TimeRangeRequests ==
    [from_timestamp : { Omitted, PyInt(1) },
     to_timestamp : { Omitted, PyInt(1), PyInt(-1) }]

\* rotkehlchen.serialization.deserialize.deserialize_timestamp
deserialize_timestamp(value) ==
    IF value.py = "int" /\ value.v >= 0 THEN Returned(value.v)
    ELSE Raised([exc |-> "DeserializationError"])

\* TimestampField._deserialize (123-137)
TimestampField_deserialize(value) ==
    IF deserialize_timestamp(value).outcome = "raised"
    THEN [ok |-> FALSE, message |-> "DeserializationError"]
    ELSE [ok |-> TRUE, value |-> deserialize_timestamp(value).value]

\* a default read once, when the class body ran and the clock read 0:
\* missing=ts_now()
to_timestamp_missing_at_definition(now) == 0

\* missing=ts_now: the callable is called by marshmallow at every load that
\* finds the field missing, and answers the clock of that moment
to_timestamp_missing(now) == now

\* missing=Timestamp(0)
from_timestamp_missing == 0

TimeRangeSchema_load(schema, raw, now) ==
    LET loaded ==
            [from_timestamp |->
                 IF raw.from_timestamp = Omitted
                 THEN [ok |-> TRUE, value |-> from_timestamp_missing]
                 ELSE TimestampField_deserialize(raw.from_timestamp),
             to_timestamp |->
                 IF raw.to_timestamp = Omitted
                 THEN [ok |-> TRUE, value |-> to_timestamp_missing(now)]
                 ELSE TimestampField_deserialize(raw.to_timestamp)]
    IN  IF \E f \in DOMAIN loaded : ~loaded[f].ok THEN Raised(FieldErrors(loaded))
        ELSE Returned([f \in DOMAIN loaded |-> loaded[f].value])

TimeFrame ==
    /\ UNCHANGED <<field_call, field_result>>
    /\ UNCHANGED setupVars
    /\ UNCHANGED reqVars
    /\ UNCHANGED serverVars

ClockTick ==
    /\ clock < MaxClock
    /\ clock' = clock + 1
    /\ UNCHANGED reqs
    /\ TimeFrame

\* a request for one of the schemas is validated at the clock's reading
LoadTimeRange ==
    /\ Len(reqs) < Cardinality(RequestIds)
    /\ \E schema \in TimeRangeSchemas, raw \in TimeRangeRequests :
          reqs' = Append(reqs, [schema |-> schema, raw |-> raw, at |-> clock,
                                result |-> TimeRangeSchema_load(schema, raw, clock)])
    /\ UNCHANGED clock
    /\ TimeFrame

InitTimeRange ==
    /\ Constructed
    /\ NoRequest
    /\ listening = FALSE
    /\ NoServer
    /\ NoFieldCall

NextTimeRange == ClockTick \/ LoadTimeRange

SpecTimeRange == InitTimeRange /\ [][NextTimeRange]_vars

(***************************************************************************)
(* Properties                                                              *)
(***************************************************************************)

\* C1: whenever validation of the request raised a ValidationError, the
\* request is aborted by handle_request_parsing_error with HTTP 400, a body
\* of result None and a message built from the error, and the resource
\* handler body is never run for that request.
C1_InvalidInputNeverReachesHandler ==
    req.err # NoErr =>
        /\ req.phase \in {"invalid", "responded"}
        /\ handler_calls = 0
        /\ req.handler_data = <<>>
        /\ req.phase = "responded" =>
             /\ response.status = 400
             /\ response.body.result = None
             /\ response.body.message =
                  <<"json.dumps", [field |-> req.err.field, messages |-> <<req.err.message>>]>>

\* a request refused with 400 after its validation failed
C1_Witness ==
    /\ req.phase = "responded"
    /\ req.err # NoErr
    /\ response.status = 400
    /\ handler_calls = 0

\* two spellings name the same address after normalization: on Ethereum the
\* checksum-cased forms are equal, on the other chains the strings are
SameAddress(blockchain, a, b) ==
    IF blockchain = ETHEREUM /\ a.kind = "hex" /\ b.kind = "hex"
    THEN a.id = b.id
    ELSE a = b

GivenAddress(k) == address_getter(req.schema, req.given_accounts[k])

HasDuplicateAddress ==
    \E i, j \in 1..Len(req.given_accounts) :
        i < j /\ SameAddress(req.blockchain, GivenAddress(i), GivenAddress(j))

\* C2: for the PUT, PATCH and DELETE blockchain-accounts schemas and every
\* chain, a request holding the same address twice after normalization fails
\* whole-schema validation with an error on 'address'; the post-load
\* transformation has not run (no resolver call, accounts untouched) and no
\* handler runs.
C2_DuplicateAddressRejected ==
    (/\ req.phase \notin {"idle", "received", "fields_ok"}
     /\ req.blockchain # None
     /\ HasDuplicateAddress)
    =>  /\ req.err # NoErr
        /\ req.err.exc = "ValidationError"
        /\ req.err.field = "address"
        /\ req.phase \in {"invalid", "responded"}
        /\ ens_calls = <<>>
        /\ req.accounts = req.given_accounts
        /\ handler_calls = 0

\* a DELETE that spells one ethereum address lower-case and checksum-cased
\* was refused
C2_Witness ==
    /\ req.phase = "responded"
    /\ req.schema = "delete"
    /\ req.blockchain = ETHEREUM
    /\ Len(req.given_accounts) = 2
    /\ req.given_accounts[1] # req.given_accounts[2]
    /\ HasDuplicateAddress
    /\ req.err # NoErr
    /\ req.err.message[1] = "appears multiple times in the request data"
    /\ response.status = 400

\* C3: if the resolver answered None for any ENS name of the batch, the
\* request fails with a ValidationError naming that name, whatever the
\* position of the entry, and the handler is given no list at all.
C3_UnresolvedNameFailsWholeRequest ==
    \A k \in 1..Len(ens_calls) :
        ens_calls[k].result = NoneValue =>
            /\ req.err # NoErr
            /\ req.err.exc = "ValidationError"
            /\ req.err.message[2] = ens_calls[k].name
            /\ req.phase \in {"invalid", "responded"}
            /\ handler_calls = 0
            /\ req.handler_data = <<>>
            /\ req.phase = "responded" => response.status = 400

\* a PATCH whose first name resolved and was written into the accounts, and
\* whose second name did not resolve, was refused
C3_Witness ==
    /\ req.phase = "responded"
    /\ req.schema = "patch"
    /\ Len(ens_calls) = 2
    /\ ens_calls[1].result # NoneValue
    /\ ens_calls[2].result = NoneValue
    /\ req.accounts # req.given_accounts
    /\ response.status = 400

\* C4: an exception leaving a resource handler is answered by
\* APIServer.unhandled_exception: a critical log record with the traceback,
\* and a 500 response whose structured failure body carries str(exception);
\* the server keeps listening.
C4_HandlerExceptionAnsweredByUnhandledException ==
    (req.phase = "responded" /\ handler_calls = 1 /\ req.exc # NoExc) =>
        /\ response = [status |-> 500,
                       body |-> [result |-> None, message |-> <<"str", req.exc.args>>]]
        /\ \E k \in 1..Len(log_records) :
               /\ log_records[k].level = "CRITICAL"
               /\ log_records[k].exc_info
               /\ log_records[k].request = served
        /\ listening

\* C5: a request whose path matches no route is answered by
\* endpoint_not_found: status 404 and a structured failure body whose
\* message is the NotFound's description ('invalid endpoint' for an error
\* that is no NotFound); no handler runs.
C5_UnmatchedPathAnswered404 ==
    (req.phase = "responded" /\ ~PathMatches(req.path)) =>
        /\ response.status = 404
        /\ response.body.result = None
        /\ response.body.message =
             (IF req.exc.class = "NotFound" THEN req.exc.description
              ELSE <<"invalid endpoint">>)
        /\ handler_calls = 0

\* an unmatched path got its 404
C5_Witness ==
    /\ req.phase = "responded"
    /\ req.path = "/zz"
    /\ response.status = 404

\* the server, and the greenlet, that the running stop() call found in
\* self.wsgiserver and self.greenlet
SeenServerStopped ==
    stop_local.server # 0 =>
        /\ servers[stop_local.server].state \in {"stopped", "bind_failed"}
        /\ servers[stop_local.server].inflight = 0

SeenGreenletDead ==
    stop_local.greenlet # 0 => greenlets[stop_local.greenlet].state = "dead"

\* start() or run() was called at most once on this APIServer
StartedAtMostOnce ==
    Len(greenlets) + Cardinality({ s \in 1..Len(servers) : servers[s].by = 0 }) <= 1

SetupUrlsReturned ==
    \/ init_pc \in {"register_blueprint", "install_handlers", "constructed"}
    \/ init_pc = "raised" /\ init_exc.type = "AssertionError"

EndpointsDistinct ==
    \A i, j \in 1..Len(flask_api_context) :
        i # j => flask_api_context[i].endpoint # flask_api_context[j].endpoint

\* C7 as stated: setup_urls never completes with two entries sharing one
\* endpoint name; a duplicate fails during setup_urls.
C7_SetupUrlsRejectsDuplicate == SetupUrlsReturned => EndpointsDistinct

\* C7: construction of the APIServer never gets past register_blueprint
\* with two entries sharing one endpoint name, and the error raised there
\* is raised for such a pair only: a duplicate fails at startup.
C7_DuplicateFailsAtStartup ==
    /\ init_pc \in {"install_handlers", "constructed"} => EndpointsDistinct
    /\ (init_pc = "raised" /\ init_exc.type = "AssertionError") => ~EndpointsDistinct
    /\ ~EndpointsDistinct => (~listening /\ served = 0)

\* a table of two entries with one endpoint name was refused by
\* register_blueprint, after setup_urls had recorded both
C7_Witness ==
    /\ init_pc = "raised"
    /\ init_exc.type = "AssertionError"
    /\ Len(flask_api_context) = 2
    /\ flask_api_context[1].resource_cls # flask_api_context[2].resource_cls

\* the first malformed entry of the table, 0 when there is none
FirstMalformed ==
    IF \E k \in 1..Len(urls) : Len(urls[k]) \notin {2, 3}
    THEN CHOOSE k \in 1..Len(urls) :
            /\ Len(urls[k]) \notin {2, 3}
            /\ \A m \in 1..(k - 1) : Len(urls[m]) \in {2, 3}
    ELSE 0

\* C8: setup_urls raises ValueError on reaching an entry of neither 2 nor 3
\* elements, and no such entry is ever registered.
C8_MalformedEntryRaises ==
    /\ Len(flask_api_context) <= Len(urls)
    /\ \A k \in 1..Len(flask_api_context) :
           /\ Len(urls[k]) \in {2, 3}
           /\ flask_api_context[k].route = urls[k][1]
           /\ flask_api_context[k].resource_cls = urls[k][2]
    /\ (FirstMalformed # 0 /\ init_pc # "setup_urls") =>
           /\ init_pc = "raised"
           /\ init_exc = [type |-> "ValueError", at |-> FirstMalformed]
    /\ init_exc.type = "ValueError" => Len(urls[url_idx]) \notin {2, 3}

\* a table whose second entry is malformed: the first was registered, then
\* ValueError
C8_Witness ==
    /\ init_pc = "raised"
    /\ init_exc.type = "ValueError"
    /\ Len(flask_api_context) = 1
    /\ Len(urls) = 2

\* C9: the endpoint passed to add_resource is the resource class's name
\* lower-cased for a 2-tuple and exactly the third element for a 3-tuple.
C9_EndpointName ==
    \A k \in 1..Len(flask_api_context) :
        LET e == flask_api_context[k].endpoint IN
          /\ Len(urls[k]) = 2 =>
               /\ Len(e) = Len(urls[k][2])
               /\ \A c \in 1..Len(e) : e[c] = LowerChar(urls[k][2][c])
          /\ Len(urls[k]) = 3 => e = urls[k][3]

\* a 2-tuple whose class name has upper-case letters and a 3-tuple whose
\* explicit name has one were both registered
C9_Witness ==
    /\ Len(flask_api_context) = 2
    /\ Len(urls[1]) = 2
    /\ urls[1][2] # flask_api_context[1].endpoint
    /\ Len(urls[2]) = 3
    /\ flask_api_context[2].endpoint = <<"X">>

\* C10: every registered resource carries in resource_class_kwargs the very
\* rest_api object given to setup_urls, which is the one the APIServer keeps
\* as self.rest_api.
C10_SameBackendObject ==
    /\ \A k \in 1..Len(flask_api_context) :
           /\ DOMAIN flask_api_context[k].resource_class_kwargs = {"rest_api_object"}
           /\ flask_api_context[k].resource_class_kwargs.rest_api_object = rest_api
           /\ self_rest_api # None =>
                flask_api_context[k].resource_class_kwargs.rest_api_object = self_rest_api
    /\ init_pc \in {"register_blueprint", "install_handlers", "constructed"} =>
           self_rest_api = rest_api

\* a server constructed over two routes: both resources and the server hold
\* the one backend object
C10_Witness ==
    /\ init_pc = "constructed"
    /\ Len(flask_api_context) = 2
    /\ self_rest_api = "rest_api_2"
    /\ flask_api_context[1].resource_class_kwargs.rest_api_object = "rest_api_2"
    /\ flask_api_context[2].resource_class_kwargs.rest_api_object = "rest_api_2"

(***************************************************************************)
(* C11                                                                     *)
(***************************************************************************)
RulesPairwiseDistinct ==
    \A i, j \in 1..Len(URLS_V1) :
        i # j => (URLS_V1[i].segs # URLS_V1[j].segs \/ URLS_V1[i].slash # URLS_V1[j].slash)

\* C11: the path patterns of URLS_V1 are pairwise distinct, and a concrete
\* request path below the prefix is matched by at most one of them
C11_PathMatchesAtMostOneRule ==
    /\ RulesPairwiseDistinct
    /\ (field_call.fn = "url_map" /\ field_result.outcome = "returned")
          => Cardinality(field_result.value) <= 1

\* the path /blockchains/ETH, that the literal rules below /blockchains/ETH/
\* do not take, is matched by the parameterised rule alone
C11_Witness ==
    /\ field_call.fn = "url_map"
    /\ field_result.outcome = "returned"
    /\ Len(field_call.value.segs) = 2
    /\ field_call.value.segs[1].text = "blockchains"
    /\ field_call.value.segs[2].text = "ETH"
    /\ Cardinality(field_result.value) = 1
    /\ \A i \in field_result.value : URLS_V1[i].rule = "/blockchains/<string:blockchain>"

(***************************************************************************)
(* C12                                                                     *)
(***************************************************************************)
\* a raw weight in tenths of a percent, when it spells a number
SpellsNumber(raw) == FVal(raw).exc = "none" /\ FVal(raw).e <= 1
TenthsOfPercent(raw) == FVal(raw).m * Pow10(1 - FVal(raw).e)

RECURSIVE SumTenths(_)
SumTenths(list) ==
    IF Len(list) = 0 THEN 0 ELSE TenthsOfPercent(Head(list)) + SumTenths(Tail(list))

\* every weight is a percentage between 0 and 100 and together they are at
\* most 100 percent
WeightsWithinWhole(list) ==
    /\ \A k \in 1..Len(list) :
          SpellsNumber(list[k]) /\ TenthsOfPercent(list[k]) \in 0..1000
    /\ SumTenths(list) <= 1000

\* C12: EthereumTokenSchema accepts underlying_tokens exactly when it is
\* left out or null, or a non-empty list whose weights sum to at most 1; an
\* empty list is refused with the message that asks for a null value
C12_UnderlyingTokensAccepted ==
    (field_call.fn = "EthereumTokenSchema" /\ field_result # NoResult) =>
        LET raw == field_call.value
        IN  /\ field_result.outcome = "returned"
                <=> \/ raw.given \in { "omitted", "null" }
                    \/ /\ raw.given = "list"
                       /\ raw.list # <<>>
                       /\ WeightsWithinWhole(raw.list)
            /\ (raw.given = "list" /\ raw.list = <<>>) =>
                  /\ IsValidationError(field_result)
                  /\ field_result.err.message[1] =
                        "Gave an empty list for underlying tokens. If you need to specify no underlying tokens give a null value"

\* two weights of 50 percent, a sum of exactly 1, are accepted
C12_Witness ==
    /\ field_call.fn = "EthereumTokenSchema"
    /\ field_call.value.given = "list"
    /\ field_call.value.list = << PyInt(50), PyInt(50) >>
    /\ field_result.outcome = "returned"

\* weights of 50 and 70 percent, a sum of 1.2, are refused by the schema
C12_WitnessExceeds ==
    /\ field_call.fn = "EthereumTokenSchema"
    /\ field_call.value.given = "list"
    /\ field_call.value.list = << PyInt(50), PyInt(70) >>
    /\ IsValidationError(field_result)
    /\ field_result.err.message[1] = "The sum of underlying token weights exceeds 100%"

(***************************************************************************)
(* C13                                                                     *)
(***************************************************************************)
\* the name a FileField value carries: the filename of an upload, the text
\* of a path
GivenName(value) == IF value.py = "FileStorage" THEN value.filename ELSE value.s

SuffixAllowed(name, allowed) ==
    \E k \in 1..Len(allowed.exts) : EndsWith(name, allowed.exts[k])

\* C13: a FileField with allowed extensions accepts an upload or a path only
\* if its name ends in one of them, spelled in the same case; an upload or
\* an existing file whose name does not is refused with a message that
\* names all the allowed extensions
C13_AcceptedFileHasAllowedExtension ==
    (/\ field_call.fn = "FileField"
     /\ field_result # NoResult
     /\ field_call.allowed_extensions.given
     /\ field_call.value.py \in { "FileStorage", "str" }) =>
        LET value == field_call.value
            allowed == field_call.allowed_extensions
        IN  /\ field_result.outcome = "returned" => SuffixAllowed(GivenName(value), allowed)
            /\ (/\ ~SuffixAllowed(GivenName(value), allowed)
                /\ (value.py = "FileStorage" \/ field_call.fs = "file")) =>
                  /\ IsValidationError(field_result)
                  /\ field_result.err.message[1] = "Given file does not end in any of"
                  /\ field_result.err.message[2][2] = allowed.exts

(***************************************************************************)
(* C14                                                                     *)
(***************************************************************************)
PairwiseDistinct(list) ==
    \A i, j \in 1..Len(list) : i # j => list[i] # list[j]

SupportedOracles(fn) ==
    IF fn = "_validate_current_price_oracles" THEN CurrentPriceOracle
    ELSE HistoricalPriceOracle

\* C14: both validators of a list of oracles raise a ValidationError for the
\* empty list and for a list with a repeated oracle, and accept every
\* non-empty list of pairwise distinct oracles; the error lists the oracles
\* given and all the supported ones
C14_OracleListValidated ==
    (/\ field_call.fn \in { "_validate_current_price_oracles",
                            "_validate_historical_price_oracles" }
     /\ field_result # NoResult) =>
        LET oracles == field_call.value
        IN  IF oracles # <<>> /\ PairwiseDistinct(oracles)
            THEN field_result.outcome = "returned"
            ELSE /\ IsValidationError(field_result)
                 /\ field_result.err.message[2] = <<oracles, SupportedOracles(field_call.fn)>>

\* a list that names one oracle twice is refused
C14_Witness ==
    /\ field_call.fn = "_validate_historical_price_oracles"
    /\ field_call.value = << "coingecko", "cryptocompare", "coingecko" >>
    /\ IsValidationError(field_result)

\* a list of two distinct oracles is accepted
C14_WitnessAccepted ==
    /\ field_call.fn = "_validate_current_price_oracles"
    /\ field_call.value = << "cryptocompare", "coingecko" >>
    /\ field_result.outcome = "returned"

(***************************************************************************)
(* C15, C16                                                                *)
(***************************************************************************)
\* C15: BlockchainField maps 'btc' and 'BTC' to BITCOIN, 'eth' and 'ETH' to
\* ETHEREUM, 'ksm' and 'KSM' to KUSAMA, and raises for every other input a
\* ValidationError whose message holds the value given
C15_BlockchainFieldMapsCodes ==
    (field_call.fn = "BlockchainField" /\ field_result # NoResult) =>
        LET value == field_call.value
        IN  CASE value \in { "btc", "BTC" } -> field_result = Returned(BITCOIN)
              [] value \in { "eth", "ETH" } -> field_result = Returned(ETHEREUM)
              [] value \in { "ksm", "KSM" } -> field_result = Returned(KUSAMA)
              [] OTHER -> /\ IsValidationError(field_result)
                          /\ field_result.err.message[2] = value

\* 'KSM' has been mapped to KUSAMA
C15_Witness ==
    /\ field_call.fn = "BlockchainField"
    /\ field_call.value = "KSM"
    /\ field_result = Returned(KUSAMA)

\* 'xyz' has been refused with an error that names it
C15_WitnessRefused ==
    /\ field_call.fn = "BlockchainField"
    /\ field_call.value = "xyz"
    /\ IsValidationError(field_result)
    /\ field_result.err.message[2] = "xyz"

\* C16: BlockchainField maps every casing of the codes btc, eth and ksm,
\* lower, upper or mixed, to the one enum member of the code
C16_EveryCasingAccepted ==
    \A code \in ShortCodes :
        (/\ field_call.fn = "BlockchainField"
         /\ field_result # NoResult
         /\ field_call.value \in Casings(code)) =>
            field_result = Returned(CanonicalBlockchain(code))

(***************************************************************************)
(* C17                                                                     *)
(***************************************************************************)
\* C17: PositiveAmountField accepts an input exactly when AmountField parses
\* it to an amount above zero, and then returns that amount; zero and every
\* negative amount are refused with the 'Non-positive amount' message
C17_PositiveAmountOnly ==
    (field_call.fn = "PositiveAmountField" /\ field_result # NoResult) =>
        LET parsed == AmountField_deserialize(field_call.value)
        IN  IF parsed.outcome = "returned" /\ parsed.value.m > 0
            THEN field_result = Returned(parsed.value)
            ELSE /\ IsValidationError(field_result)
                 /\ parsed.outcome = "returned" =>
                       /\ field_result.err.message[1] =
                             "Non-positive amount given. Amount should be > 0"
                       /\ field_result.err.message[2] = field_call.value

\* the text '0.00000001' has been accepted as the amount 1 / 10^8
C17_Witness ==
    /\ field_call.fn = "PositiveAmountField"
    /\ field_call.value = PyStr(<<"0", ".", "0", "0", "0", "0", "0", "0", "0", "1">>)
    /\ field_result = Returned([m |-> 1, e |-> 8])

\* the text '0' has been refused as a non-positive amount
C17_WitnessZero ==
    /\ field_call.fn = "PositiveAmountField"
    /\ field_call.value = PyStr(<<"0">>)
    /\ IsValidationError(field_result)
    /\ field_result.err.message[1] = "Non-positive amount given. Amount should be > 0"

(***************************************************************************)
(* C18, C19                                                                *)
(***************************************************************************)
\* C18: TaxFreeAfterPeriodField returns -1 and every positive integer as
\* given, and refuses 0 and every integer below -1 with a ValidationError
C18_TaxFreeAfterPeriodIntegers ==
    (/\ field_call.fn = "TaxFreeAfterPeriodField"
     /\ field_result # NoResult
     /\ field_call.value.py = "int") =>
        IF field_call.value.v = -1 \/ field_call.value.v > 0
        THEN field_result = Returned(field_call.value.v)
        ELSE IsValidationError(field_result)

\* the integer -1 has been accepted
C18_Witness ==
    /\ field_call.fn = "TaxFreeAfterPeriodField"
    /\ field_call.value = PyInt(-1)
    /\ field_result = Returned(-1)

\* the integer -2 has been refused
C18_WitnessRefused ==
    /\ field_call.fn = "TaxFreeAfterPeriodField"
    /\ field_call.value = PyInt(-2)
    /\ IsValidationError(field_result)

\* C19: FloatingPercentageField refuses every value below 0 and every value
\* above 100, returns p / 100 for every other number p, and so returns only
\* values between 0 and 1, both included
C19_PercentageNormalized ==
    (field_call.fn = "FloatingPercentageField" /\ field_result # NoResult) =>
        /\ field_result.outcome = "returned" =>
              /\ field_result.value.m >= 0
              /\ field_result.value.m <= Pow10(field_result.value.e)
        /\ FVal(field_call.value).exc = "none" =>
              LET p == FVal(field_call.value)
              IN  IF p.m < 0 \/ p.m > 100 * Pow10(p.e)
                  THEN IsValidationError(field_result)
                  ELSE /\ field_result.outcome = "returned"
                       /\ field_result.value.m * 100 * Pow10(p.e)
                             = p.m * Pow10(field_result.value.e)

\* the percentage 100 has been returned as 1
C19_Witness ==
    /\ field_call.fn = "FloatingPercentageField"
    /\ field_call.value = PyInt(100)
    /\ field_result.outcome = "returned"
    /\ field_result.value.m = Pow10(field_result.value.e)

\* the percentage 100.1 has been refused
C19_WitnessAbove ==
    /\ field_call.fn = "FloatingPercentageField"
    /\ field_call.value = PyStr(<<"1", "0", "0", ".", "1">>)
    /\ IsValidationError(field_result)

(***************************************************************************)
(* C20                                                                     *)
(***************************************************************************)
TypedFields ==
    { "TaxFreeAfterPeriodField", "AmountField", "PositiveAmountField",
      "FloatingPercentageField", "BlockchainField", "DirectoryField", "FileField" }

\* a float that is no whole number
FractionalNumber(value) == value.py = "float" /\ value.m % Pow10(value.e) # 0

\* C20: a typed field answers an input outside its valid set with a
\* ValidationError: no exception of another kind leaves the field, and
\* TaxFreeAfterPeriodField returns no integer for a number that is not one
C20_InvalidInputYieldsValidationError ==
    (field_call.fn \in TypedFields /\ field_result # NoResult) =>
        /\ field_result.outcome = "raised" => field_result.err.exc = "ValidationError"
        /\ (/\ field_call.fn = "TaxFreeAfterPeriodField"
            /\ FractionalNumber(field_call.value)) => field_result.outcome = "raised"

\* the part of C20 on exceptions alone
C20_OnlyValidationErrors ==
    (field_call.fn \in TypedFields /\ field_result.outcome = "raised") =>
        field_result.err.exc = "ValidationError"

\* the part of C20 on silent coercion alone
C20_NoSilentCoercion ==
    (/\ field_call.fn = "TaxFreeAfterPeriodField"
     /\ field_result # NoResult
     /\ FractionalNumber(field_call.value)) => field_result.outcome = "raised"

(***************************************************************************)
(* C21                                                                     *)
(***************************************************************************)
\* decimals of the same numeric value
SameNumber(a, b) == a.m * Pow10(b.e) = b.m * Pow10(a.e)

\* C21: for a valid decimal text, the text AmountField serializes from the
\* amount deserialized denotes the same number as the text given, and is
\* deserialized again to the same amount
C21_AmountRoundTrip ==
    (/\ field_call.fn = "AmountField._serialize"
     /\ field_call.given.py = "str") =>
        LET again == AmountField_deserialize(field_result.value)
            first == DecimalOfText(field_call.given.s)
        IN  /\ again.outcome = "returned"
            /\ SameNumber(again.value, field_call.value)
            /\ SameNumber(again.value, [m |-> first.m, e |-> first.e])

\* the text '0.00000001' has been serialized, in scientific notation
C21_Witness ==
    /\ field_call.fn = "AmountField._serialize"
    /\ field_call.given = PyStr(<<"0", ".", "0", "0", "0", "0", "0", "0", "0", "1">>)
    /\ field_result = Returned(PyStr(<<"1", "E", "-", "8">>))

\* the text '-.2' has been serialized as '-0.2'
C21_WitnessPlain ==
    /\ field_call.fn = "AmountField._serialize"
    /\ field_call.given = PyStr(<<"-", ".", "2">>)
    /\ field_result = Returned(PyStr(<<"-", "0", ".", "2">>))

(***************************************************************************)
(* C22                                                                     *)
(***************************************************************************)
\* the post-load transformation of a request run on its own, from entry idx
\* on, with the resolver's answers in the order they are asked for
RECURSIVE AloneTransform(_, _, _, _, _, _)
AloneTransform(blockchain, schema, accounts, idx, answers, out) ==
    IF idx > Len(accounts)
    THEN [ok |-> TRUE, accounts |-> IF schema = "delete" THEN out ELSE accounts]
    ELSE LET given_address == address_getter(schema, accounts[idx])
             looks_up == CallsEnsLookup(blockchain, given_address)
             resolved == IF looks_up /\ answers # <<>> THEN Head(answers) ELSE NoneValue
             t == transform_address(blockchain, given_address, resolved)
         IN  IF looks_up /\ answers = <<>> THEN [ok |-> FALSE, err |-> [exc |-> "unanswered"]]
             ELSE IF ~t.ok THEN [ok |-> FALSE, err |-> t.err]
             ELSE AloneTransform(
                      blockchain, schema,
                      IF schema = "delete" THEN accounts
                      ELSE [accounts EXCEPT ![idx].address = t.address],
                      idx + 1,
                      IF looks_up THEN Tail(answers) ELSE answers,
                      IF schema = "delete" THEN Append(out, t.address) ELSE out)

\* the outcome of validating a request alone
ValidatedAlone(r) ==
    LET f == BlockchainField_deserialize(r.raw_blockchain)
    IN  IF ~f.ok THEN [ok |-> FALSE, err |-> f.err]
        ELSE LET e == validate_blockchain_account_schemas(
                          [blockchain |-> f.value, accounts |-> r.given_accounts],
                          r.schema)
             IN  IF e # NoErr THEN [ok |-> FALSE, err |-> e]
                 ELSE AloneTransform(f.value, r.schema, r.given_accounts, 1,
                                     r.answers, <<>>)

OutcomeOf(r) ==
    IF r.phase = "loaded" THEN [ok |-> TRUE, accounts |-> r.accounts]
    ELSE [ok |-> FALSE, err |-> r.err]

OutcomesAsAlone ==
    \A i \in RequestIds :
        reqs[i].phase \in { "loaded", "invalid" } => OutcomeOf(reqs[i]) = ValidatedAlone(reqs[i])

\* C22: however the validation steps of two requests interleave, each
\* request ends with the outcome it has when validated alone, and a step of
\* one request leaves the other request's data as it was
C22_ConcurrentValidationIndependent ==
    /\ []OutcomesAsAlone
    /\ [][\E i \in RequestIds : \A j \in RequestIds \ {i} : reqs'[j] = reqs[j]]_vars

\* both requests name the same address and both were accepted; the second
\* ran its lookup while the first was blocked in its own
C22_Witness ==
    /\ reqs[1].phase = "loaded"
    /\ reqs[2].phase = "loaded"
    /\ reqs[1].given_accounts = reqs[2].given_accounts
    /\ reqs[1].blockchain = ETHEREUM /\ reqs[2].blockchain = ETHEREUM
    /\ Len(reqs[1].given_accounts) = 2
    /\ Len(ens_calls) = 4
    /\ ens_calls[1] = [request |-> 1, event |-> "call"]
    /\ ens_calls[2] = [request |-> 2, event |-> "call"]
    /\ ens_calls[3] = [request |-> 2, event |-> "return"]
    /\ ens_calls[4] = [request |-> 1, event |-> "return"]

(***************************************************************************)
(* C23                                                                     *)
(***************************************************************************)
UserActionLoaded == field_call.fn = "UserActionSchema" /\ field_result # NoResult

PasswordAbsent(raw) == raw.password \in { Omitted, Null }

\* every field of the request is one its field declaration takes
UserActionFieldsValid(raw) ==
    /\ raw.name.given = "str"
    /\ raw.password.given \in { "omitted", "null", "str" }
    /\ raw.sync_approval = Omitted \/ raw.sync_approval \in { Str("unknown"), Str("yes"), Str("no") }
    /\ raw.action \in { Omitted, Null, Str("login"), Str("logout") }
    /\ raw.premium_api_key.given \in { "omitted", "str" }
    /\ raw.premium_api_secret.given \in { "omitted", "str" }

MissingPasswordError ==
    /\ field_result.outcome = "raised"
    /\ field_result.err.field = "_schema"
    /\ field_result.err.message[1] = "Missing password field for login"

\* C23: a login request without a password is always refused, and once its
\* fields are valid the refusal is 'Missing password field for login'; a
\* login request with a password and a logout request without one are never
\* refused with that error, and are accepted when their fields are valid
C23_LoginRequiresPassword ==
    UserActionLoaded =>
        LET raw == field_call.value
        IN  /\ (raw.action = Str("login") /\ PasswordAbsent(raw)) =>
                   /\ field_result.outcome = "raised"
                   /\ UserActionFieldsValid(raw) => MissingPasswordError
            /\ MissingPasswordError => (raw.action = Str("login") /\ PasswordAbsent(raw))
            /\ (UserActionFieldsValid(raw) /\ raw.action = Str("login")
                  /\ raw.password.given = "str") => field_result.outcome = "returned"
            /\ (UserActionFieldsValid(raw) /\ raw.action = Str("logout")
                  /\ PasswordAbsent(raw)) => field_result.outcome = "returned"

C23_Witness ==
    /\ UserActionLoaded
    /\ field_call.value.action = Str("login")
    /\ field_call.value.password = Omitted
    /\ MissingPasswordError

C23_WitnessLogout ==
    /\ UserActionLoaded
    /\ field_call.value.action = Str("logout")
    /\ field_call.value.password = Null
    /\ field_result.outcome = "returned"

C23_WitnessLogin ==
    /\ UserActionLoaded
    /\ field_call.value.action = Str("login")
    /\ field_call.value.password = Str("pw")
    /\ field_result.outcome = "returned"

(***************************************************************************)
(* C24                                                                     *)
(***************************************************************************)
SettingsLoaded == field_call.fn = "ModifiableSettingsSchema" /\ field_result # NoResult

ProducedSettings ==
    field_result.outcome = "returned" /\ field_result.value.type = "ModifiableDBSettings"

GivenModules(raw) == [k \in 1..Len(raw.active_modules.list) |-> raw.active_modules.list[k].s]

\* the request's fields are ones their declarations take: active_modules a
\* list of strings, taxfree_after_period left out or a valid period
SettingsFieldsValid(raw) ==
    /\ raw.active_modules.given = "list"
    /\ \A k \in 1..Len(raw.active_modules.list) : raw.active_modules.list[k].given = "str"
    /\ raw.taxfree_after_period = Omitted
         \/ raw.taxfree_after_period \in { PyInt(-1), PyInt(2) }

IsFirstUnknown(modules, k) ==
    /\ k \in 1..Len(modules)
    /\ modules[k] \notin { "aave", "compound", "makerdao_dsr", "uniswap" }
    /\ \A j \in 1..(k - 1) : modules[j] \in { "aave", "compound", "makerdao_dsr", "uniswap" }

\* C24: settings are produced from a non-null active_modules list only when
\* every element is a known module; a list of strings with an unknown module
\* fails with an error scoped to 'active_modules' that names the first
\* unknown module, and no ModifiableDBSettings is produced
C24_ActiveModulesKnown ==
    SettingsLoaded =>
        LET raw == field_call.value
        IN  /\ (ProducedSettings /\ raw.active_modules.given \notin { "omitted", "null" }) =>
                   /\ raw.active_modules.given = "list"
                   /\ \A k \in 1..Len(raw.active_modules.list) :
                          /\ raw.active_modules.list[k].given = "str"
                          /\ raw.active_modules.list[k].s \in
                                 { "aave", "compound", "makerdao_dsr", "uniswap" }
            /\ \A k \in 1..Len(raw.active_modules.list) :
                   (raw.active_modules.given = "list" /\ SettingsFieldsValid(raw)
                      /\ IsFirstUnknown(GivenModules(raw), k)) =>
                       /\ field_result.outcome = "raised"
                       /\ field_result.err.field = "active_modules"
                       /\ field_result.err.message =
                              <<"is not a valid module", GivenModules(raw)[k]>>
            /\ field_result.outcome = "raised" => ~ProducedSettings

\* two unknown modules after a known one: the error names the first of them
C24_Witness ==
    /\ SettingsLoaded
    /\ field_call.value.active_modules.given = "list"
    /\ Len(field_call.value.active_modules.list) = 2
    /\ field_call.value.active_modules.list = <<Str("bar"), Str("foo")>>
    /\ field_result.outcome = "raised"
    /\ field_result.err.message = <<"is not a valid module", "bar">>

C24_WitnessAccepted ==
    /\ SettingsLoaded
    /\ ProducedSettings
    /\ field_result.value.active_modules.list = <<"aave", "uniswap">>

(***************************************************************************)
(* C25                                                                     *)
(***************************************************************************)
DefaultedTo(k) ==
    /\ reqs[k].raw.to_timestamp = Omitted
    /\ reqs[k].result.outcome = "returned"

\* C25: in each time-range schema an omitted to_timestamp loads as the
\* clock's reading at that request's validation and an omitted
\* from_timestamp as 0; of two requests the later one's default is not the
\* smaller
C25_TimeRangeDefaults ==
    \A k \in 1..Len(reqs) :
        /\ reqs[k].schema \in
               { "AsyncHistoricalQuerySchema", "EthereumTransactionQuerySchema",
                 "TimerangeLocationQuerySchema", "StatisticsAssetBalanceSchema",
                 "HistoryProcessingSchema" }
        /\ DefaultedTo(k) => reqs[k].result.value.to_timestamp = reqs[k].at
        /\ (reqs[k].raw.from_timestamp = Omitted /\ reqs[k].result.outcome = "returned")
               => reqs[k].result.value.from_timestamp = 0
        /\ \A j \in 1..(k - 1) :
               /\ reqs[j].at <= reqs[k].at
               /\ (DefaultedTo(j) /\ DefaultedTo(k)) =>
                      reqs[j].result.value.to_timestamp <= reqs[k].result.value.to_timestamp

\* two requests validated at different times get different defaults
C25_Witness ==
    /\ Len(reqs) = 2
    /\ DefaultedTo(1) /\ DefaultedTo(2)
    /\ reqs[1].raw.from_timestamp = Omitted
    /\ reqs[1].at = 1 /\ reqs[2].at = 2
    /\ reqs[1].result.value.to_timestamp = 1
    /\ reqs[2].result.value.to_timestamp = 2
    /\ reqs[1].result.value.from_timestamp = 0

(***************************************************************************)
(* C26                                                                     *)
(***************************************************************************)
FormatAccepted(blockchain, a) ==
    \/ a.kind = "ens"
    \/ blockchain = ETHEREUM /\ a.kind = "hex"
    \/ blockchain = BITCOIN /\ a.kind = "btc"
    \/ blockchain = KUSAMA /\ a.kind = "ksm"

WholeSchemaValid ==
    /\ req.blockchain # None
    /\ \A k \in 1..Len(req.given_accounts) : FormatAccepted(req.blockchain, GivenAddress(k))
    /\ ~HasDuplicateAddress

ResolverCallsJustified ==
    /\ ens_calls # <<>> => WholeSchemaValid
    /\ \A c \in 1..Len(ens_calls) :
           /\ ens_calls[c].name.kind = "ens"
           /\ \E k \in 1..Len(req.given_accounts) : GivenAddress(k) = ens_calls[c].name

\* C26: ens_lookup is called only by a step of the post-load transformation,
\* only with a given address that ends in '.eth', and only for a request
\* whose every address passed the format check and the duplicate check
C26_ResolverOnlyAfterValidation ==
    /\ []ResolverCallsJustified
    /\ [][Len(ens_calls') > Len(ens_calls) =>
              (req.phase = "transforming" /\ req'.phase \in { "transforming", "invalid" })]_vars

\* a request with an address and a name: one call, for the name
C26_Witness ==
    /\ req.phase = "responded"
    /\ req.blockchain = ETHEREUM
    /\ Len(req.given_accounts) = 2
    /\ GivenAddress(1).kind = "hex"
    /\ GivenAddress(2).kind = "ens"
    /\ Len(ens_calls) = 1
    /\ ens_calls[1].name = GivenAddress(2)

\* a name followed by an address of another chain: refused, and no call
C26_WitnessRefused ==
    /\ req.phase = "responded"
    /\ req.blockchain = BITCOIN
    /\ Len(req.given_accounts) = 2
    /\ GivenAddress(1).kind = "ens"
    /\ GivenAddress(2).kind = "hex"
    /\ req.err # NoErr
    /\ ens_calls = <<>>

(***************************************************************************)
(* C29                                                                     *)
(***************************************************************************)
HandedAddress(k) == address_getter(req.schema, req.handler_data[1].accounts[k])

\* C29: the addresses a handler is called with, after the resolution of the
\* names, are pairwise distinct
C29_ResolvedAddressesDistinct ==
    req.handler_data # <<>> =>
        \A i, j \in 1..Len(req.handler_data[1].accounts) :
            i # j => HandedAddress(i) # HandedAddress(j)

(***************************************************************************)
(* C30                                                                     *)
(***************************************************************************)
TwoOrThree(url_tuple) == Len(url_tuple) \in { 2, 3 }

\* the k-th registration is the one of the k-th entry of the list
RegisteredInOrder(k) ==
    /\ flask_api_context[k].route = urls[k][1]
    /\ flask_api_context[k].resource_cls = urls[k][2]

\* C30: setup_urls registers the entries in list order and undoes nothing:
\* when it raises at a malformed entry, exactly the entries before it are
\* registered; when no entry is malformed, every entry is registered once
C30_RegisteredInListOrder ==
    /\ Len(flask_api_context) <= Len(urls)
    /\ \A k \in 1..Len(flask_api_context) : RegisteredInOrder(k)
    /\ init_exc.type = "ValueError" =>
           /\ init_exc.at \in 1..Len(urls)
           /\ ~TwoOrThree(urls[init_exc.at])
           /\ \A k \in 1..(init_exc.at - 1) : TwoOrThree(urls[k])
           /\ Len(flask_api_context) = init_exc.at - 1
    /\ (init_pc # "setup_urls" /\ \A k \in 1..Len(urls) : TwoOrThree(urls[k])) =>
           Len(flask_api_context) = Len(urls)
    /\ (init_pc = "setup_urls") => Len(flask_api_context) = url_idx - 1

\* the second entry is malformed: the first one stays registered
C30_Witness ==
    /\ init_exc.type = "ValueError"
    /\ init_exc.at = 2
    /\ Len(flask_api_context) = 1
    /\ flask_api_context[1].route = urls[1][1]

\* two well-formed entries with different routes, both registered
C30_WitnessAll ==
    /\ init_pc = "constructed"
    /\ Len(urls) = 2
    /\ urls[1][1] # urls[2][1]
    /\ Len(flask_api_context) = 2

(***************************************************************************)
(* C27                                                                     *)
(***************************************************************************)
\* the resource classes the claim names as appearing in more than one entry
RepeatedResources ==
    { <<"A", "s", "y", "n", "c", "T", "a", "s", "k", "s", "R", "e", "s", "o", "u", "r", "c", "e">>,
      <<"E", "x", "c", "h", "a", "n", "g", "e", "B", "a", "l", "a", "n", "c", "e", "s", "R", "e", "s", "o", "u", "r", "c", "e">>,
      <<"A", "s", "s", "e", "t", "I", "c", "o", "n", "s", "R", "e", "s", "o", "u", "r", "c", "e">>,
      <<"E", "x", "c", "h", "a", "n", "g", "e", "s", "D", "a", "t", "a", "R", "e", "s", "o", "u", "r", "c", "e">>,
      <<"B", "l", "o", "c", "k", "c", "h", "a", "i", "n", "B", "a", "l", "a", "n", "c", "e", "s", "R", "e", "s", "o", "u", "r", "c", "e">>,
      <<"E", "t", "h", "e", "r", "e", "u", "m", "T", "r", "a", "n", "s", "a", "c", "t", "i", "o", "n", "s", "R", "e", "s", "o", "u", "r", "c", "e">> }

ShippedTable == urls = ShippedUrls

\* C27: setup_urls over the shipped table gives every entry an endpoint name
\* of its own, so the registration of the blueprint goes through; the classes
\* that appear in more than one entry are the six named, and each of them
\* has at most one entry that takes the default lower-cased class name
C27_ShippedEndpointsDistinct ==
    ShippedTable =>
        /\ \A i, j \in 1..Len(flask_api_context) :
               i # j => flask_api_context[i].endpoint # flask_api_context[j].endpoint
        /\ init_pc # "raised"
        /\ init_pc = "constructed" => Cardinality(view_functions) = Len(urls)
        /\ { urls[i][2] : i \in { k \in 1..Len(urls) :
                                    \E j \in 1..Len(urls) : j # k /\ urls[j][2] = urls[k][2] } }
               = RepeatedResources
        /\ \A i, j \in 1..Len(urls) :
               (i # j /\ urls[i][2] = urls[j][2]) => (Len(urls[i]) = 3 \/ Len(urls[j]) = 3)

\* the server was constructed over the whole shipped table
C27_Witness ==
    /\ ShippedTable
    /\ init_pc = "constructed"
    /\ Len(flask_api_context) = 77
    /\ Cardinality(view_functions) = 77

(***************************************************************************)
(* C28                                                                     *)
(***************************************************************************)
\* C28: whatever start(), run() and stop() calls were made and however the
\* serving greenlets were scheduled, when stop() returns no WSGI server of
\* this APIServer is serving, self.wsgiserver is None, and the call has
\* stopped the backend once
C28_StopLeavesNothingServing ==
    [][(stop_pc = "rest_stop" /\ stop_pc' = "idle") =>
           /\ \A s \in 1..Len(servers') : servers'[s].state # "serving"
           /\ wsgiserver' = 0
           /\ backend_stops' = backend_stops + 1]_vars

====
